---- MODULE Spec2Model ----
(***************************************************************************)
(* Model of the concerto / scheduled-runtime scheduling engine:            *)
(* Scheduler::start, the per-task interval loops (fixed_rate /             *)
(* fixed_delay), the cron capability and SchedulerHandle::shutdown.        *)
(* The compile-time checks of #[scheduled] decide which descriptors exist; *)
(* resolve_config_value is also exercised alone, on every short raw value. *)
(*                                                                         *)
(* Strings are sequences of one-character strings, so that to_lowercase,   *)
(* starts_with, find and the digit parsers are computed as the code        *)
(* computes them.  Time is discrete; one unit is one millisecond.          *)
(***************************************************************************)
EXTENDS Integers, Sequences, FiniteSets, TLC

\* ------------------------------------------------------------------ bounds
MaxTime == 4          \* the clock runs from 0 to MaxTime
MaxCronFires == 2     \* callbacks the cron capability delivers per job
MaxStartAt == 1       \* start() is called no later than this instant
MaxFaults == 1        \* bodies that panic or never return, per run
MaxRawLen == 6        \* longest raw value handed to resolve_config_value
MaxDurLen == 3        \* longest duration text built from DurChars
MaxMillisValue == 20  \* values 0..MaxMillisValue are handed to to_millis

\* --------------------------------------------------------- string helpers
UpperChars == <<"A","B","C","D","E","F","G","H","I","J","K","L","M",
                "N","O","P","Q","R","S","T","U","V","W","X","Y","Z">>
LowerChars == <<"a","b","c","d","e","f","g","h","i","j","k","l","m",
                "n","o","p","q","r","s","t","u","v","w","x","y","z">>
DigitChars == <<"0","1","2","3","4","5","6","7","8","9">>

IndexIn(c, seq) ==
  IF \E i \in 1..Len(seq) : seq[i] = c
    THEN CHOOSE i \in 1..Len(seq) : seq[i] = c
    ELSE 0

LowerChar(c) ==
  IF IndexIn(c, UpperChars) > 0 THEN LowerChars[IndexIn(c, UpperChars)] ELSE c

\* str::to_lowercase
to_lowercase(s) == [i \in 1..Len(s) |-> LowerChar(s[i])]

is_ascii_digit(c) == IndexIn(c, DigitChars) > 0

DigitVal(c) == IndexIn(c, DigitChars) - 1

starts_with(s, p) == Len(s) >= Len(p) /\ SubSeq(s, 1, Len(p)) = p

UpperChar(c) ==
  IF IndexIn(c, LowerChars) > 0 THEN UpperChars[IndexIn(c, LowerChars)] ELSE c

\* mutant: the last characters are not looked at
ends_with_Unchecked(s, p) == TRUE

ends_with(s, p) == Len(s) >= Len(p) /\ SubSeq(s, Len(s) - Len(p) + 1, Len(s)) = p

\* mutant: the last occurrence instead of the first
find_Last(s, c) ==
  IF \E i \in 1..Len(s) : s[i] = c
    THEN CHOOSE i \in 1..Len(s) : s[i] = c /\ \A j \in (i+1)..Len(s) : s[j] # c
    ELSE 0

\* str::find(c): index (1-based) of the first occurrence, 0 when absent
find(s, c) ==
  IF \E i \in 1..Len(s) : s[i] = c
    THEN CHOOSE i \in 1..Len(s) : s[i] = c /\ \A j \in 1..(i-1) : s[j] # c
    ELSE 0

\* str::trim (leading and trailing spaces)
RECURSIVE trim_start(_)
trim_start(s) == IF Len(s) > 0 /\ s[1] = " " THEN trim_start(Tail(s)) ELSE s
RECURSIVE trim_end(_)
trim_end(s) ==
  IF Len(s) > 0 /\ s[Len(s)] = " " THEN trim_end(SubSeq(s, 1, Len(s) - 1)) ELSE s

\* mutant: the text is taken as it comes
trim_Nothing(s) == s

trim(s) == trim_end(trim_start(s))

None == [ok |-> FALSE]
Some(v) == [ok |-> TRUE, val |-> v]

\* a run of ASCII digits that str::parse gives Ok(0) for: it is not empty and
\* every digit of it is 0 (a run too long for the integer type is an Err)
parses_to_zero(s) == Len(s) > 0 /\ \A i \in 1..Len(s) : s[i] = "0"

AllDigits(s) == \A i \in 1..Len(s) : is_ascii_digit(s[i])

\* ------------------------------------------------------------------- u64
\* A u64 is its eight bytes, least significant first, so that the products
\* of to_millis are computed in 64 bits whatever their size.
u64_from_le_bytes(b) == b

RECURSIVE to_le_bytes(_, _)
to_le_bytes(i, n) ==
  IF n = 0 THEN <<>> ELSE <<i % 256>> \o to_le_bytes(i \div 256, n - 1)

\* the u64 of a small natural number
u64_from(i) == u64_from_le_bytes(to_le_bytes(i, 8))

u64_MAX == u64_from_le_bytes(<<255, 255, 255, 255, 255, 255, 255, 255>>)

RECURSIVE mul_add_from(_, _, _, _)
mul_add_from(n, i, k, c) ==
  IF i > Len(n) THEN [bytes |-> <<>>, carry |-> c]
  ELSE LET t == n[i] * k + c
           rest == mul_add_from(n, i + 1, k, t \div 256)
       IN  [bytes |-> <<t % 256>> \o rest.bytes, carry |-> rest.carry]

\* n * k + c in 64 bits: the wrapped value and whether it overflowed
overflowing_mul_add(n, k, c) ==
  LET r == mul_add_from(n, 1, k, c)
  IN  [val |-> u64_from_le_bytes(r.bytes), overflow |-> r.carry > 0]

\* u64::overflowing_mul by a small factor
overflowing_mul(n, k) == overflowing_mul_add(n, k, 0)

\* quotient and remainder of a u64 by a small divisor, most significant byte
\* first
RECURSIVE div_rem_from(_, _, _, _)
div_rem_from(n, i, k, r) ==
  IF i = 0 THEN [q |-> <<>>, r |-> r]
  ELSE LET t == r * 256 + n[i]
           rest == div_rem_from(n, i - 1, k, t % k)
       IN  [q |-> Append(rest.q, t \div k), r |-> rest.r]
div_rem(n, k) == div_rem_from(n, Len(n), k, 0)

\* the digit loop of str::parse::<u64>: checked_mul(10), checked_add(digit)
RECURSIVE parse_digits(_, _)
parse_digits(acc, s) ==
  IF Len(s) = 0 THEN Some(acc)
  ELSE LET r == overflowing_mul_add(acc, 10, DigitVal(s[1]))
       IN  IF r.overflow THEN None ELSE parse_digits(r.val, Tail(s))

\* str::parse::<u64>: an optional leading '+', then one or more digits whose
\* value fits in 64 bits
parse_u64(s) ==
  LET body == IF Len(s) > 0 /\ s[1] = "+" THEN Tail(s) ELSE s
  IN  IF Len(body) > 0 /\ AllDigits(body)
        THEN parse_digits(u64_from(0), body)
        ELSE None

\* ------------------------------------------------------------- TimeUnit
S_milliseconds == <<"m","i","l","l","i","s","e","c","o","n","d","s">>
S_seconds == <<"s","e","c","o","n","d","s">>
S_minutes == <<"m","i","n","u","t","e","s">>
S_hours == <<"h","o","u","r","s">>
S_days == <<"d","a","y","s">>

\* mutant: the name is compared as it is spelled
TimeUnit_from_str_CaseSensitive(s) ==
  IF s = S_milliseconds THEN Some("Milliseconds")
  ELSE IF s = S_seconds THEN Some("Seconds")
  ELSE IF s = S_minutes THEN Some("Minutes")
  ELSE IF s = S_hours THEN Some("Hours")
  ELSE IF s = S_days THEN Some("Days")
  ELSE None

\* impl FromStr for TimeUnit
TimeUnit_from_str(s) ==
  LET l == to_lowercase(s)
  IN  IF l = S_milliseconds THEN Some("Milliseconds")
      ELSE IF l = S_seconds THEN Some("Seconds")
      ELSE IF l = S_minutes THEN Some("Minutes")
      ELSE IF l = S_hours THEN Some("Hours")
      ELSE IF l = S_days THEN Some("Days")
      ELSE None

\* mutant: minutes are multiplied as seconds are
to_millis_mul_MinutesAsSeconds(unit, value) ==
  CASE unit = "Milliseconds" -> [val |-> value, overflow |-> FALSE]
    [] unit \in {"Seconds", "Minutes"} -> overflowing_mul(value, 1000)
    [] unit = "Hours" -> overflowing_mul(value, 3600000)
    [] unit = "Days" ->
         LET a == overflowing_mul(value, 86400)
             b == overflowing_mul(a.val, 1000)
         IN  [val |-> b.val, overflow |-> a.overflow \/ b.overflow]

\* the multiplication of TimeUnit::to_millis: the product in 64 bits and
\* whether it overflowed
to_millis_mul(unit, value) ==
  CASE unit = "Milliseconds" -> [val |-> value, overflow |-> FALSE]
    [] unit = "Seconds" -> overflowing_mul(value, 1000)
    [] unit = "Minutes" -> overflowing_mul(value, 60000)
    [] unit = "Hours" -> overflowing_mul(value, 3600000)
    [] unit = "Days" ->
         LET a == overflowing_mul(value, 86400)
             b == overflowing_mul(a.val, 1000)
         IN  [val |-> b.val, overflow |-> a.overflow \/ b.overflow]

\* TimeUnit::to_millis, as a build without overflow checks computes it
to_millis(unit, value) == to_millis_mul(unit, value).val

\* a build with overflow checks panics in to_millis when this holds
to_millis_overflows(unit, value) == to_millis_mul(unit, value).overflow

\* the loop of parse_duration: index (0-based) of the first non-digit, 0 if none
split_pos_of(s) ==
  IF \E i \in 1..Len(s) : ~is_ascii_digit(s[i])
    THEN (CHOOSE i \in 1..Len(s) :
             ~is_ascii_digit(s[i]) /\ \A j \in 1..(i-1) : is_ascii_digit(s[j])) - 1
    ELSE 0

\* TimeUnit::parse_duration
parse_duration(str) ==
  LET s == trim(str)
      split_pos == split_pos_of(s)
      num_str == SubSeq(s, 1, split_pos)
      unit_str == SubSeq(s, split_pos + 1, Len(s))
      value == parse_u64(num_str)
  IN  IF split_pos = 0 \/ split_pos = Len(s) THEN None
      ELSE IF ~value.ok THEN None
      ELSE IF unit_str = <<"m","s">> THEN Some([value |-> value.val, unit |-> "Milliseconds"])
      ELSE IF unit_str = <<"s">> THEN Some([value |-> value.val, unit |-> "Seconds"])
      ELSE IF unit_str = <<"m">> THEN Some([value |-> value.val, unit |-> "Minutes"])
      ELSE IF unit_str = <<"h">> THEN Some([value |-> value.val, unit |-> "Hours"])
      ELSE IF unit_str = <<"d">> THEN Some([value |-> value.val, unit |-> "Days"])
      ELSE None

\* ---------------------------------------------------------------- config
\* mutant: a missing key reads as the empty string
config_get_string_EmptyWhenMissing(cfg, key) ==
  IF \E e \in cfg : e.key = key
    THEN Some((CHOOSE e \in cfg : e.key = key).value)
    ELSE Some(<<>>)

\* A config store is a set of [key, value] records; get_string looks a key up.
config_get_string(cfg, key) ==
  IF \E e \in cfg : e.key = key
    THEN Some((CHOOSE e \in cfg : e.key = key).value)
    ELSE None

\* resolve_config_value: Ok(string) or Err
resolve_config_value(value, cfg) ==
  IF starts_with(value, <<"$","{">>) /\ ends_with(value, <<"}">>)
    THEN LET inner == SubSeq(value, 3, Len(value) - 1)
             colon_pos == find(inner, ":")
         IN  IF colon_pos > 0
               THEN LET key == SubSeq(inner, 1, colon_pos - 1)
                        default_value == SubSeq(inner, colon_pos + 1, Len(inner))
                        got == config_get_string(cfg, key)
                    IN  IF got.ok THEN Some(got.val) ELSE Some(default_value)
               ELSE config_get_string(cfg, inner)
    ELSE Some(value)

\* ------------------------------------------------- Scheduler's parse helpers
\* Scheduler::parse_time_unit: falls back to Milliseconds
parse_time_unit(time_unit_str) ==
  LET r == TimeUnit_from_str(time_unit_str)
  IN  IF r.ok THEN r.val ELSE "Milliseconds"

\* mutant: the suffix is parsed and the descriptor's time_unit applied
parse_initial_delay_UnitWins(initial_delay, time_unit) ==
  LET d == parse_duration(initial_delay)
      n == parse_u64(initial_delay)
  IN  IF d.ok THEN to_millis(time_unit, d.val.value)
      ELSE to_millis(time_unit, IF n.ok THEN n.val ELSE u64_from(0))

\* Scheduler::parse_initial_delay: shorthand first, then bare integer, then 0
parse_initial_delay(initial_delay, time_unit) ==
  LET d == parse_duration(initial_delay)
      n == parse_u64(initial_delay)
  IN  IF d.ok THEN to_millis(d.val.unit, d.val.value)
      ELSE to_millis(time_unit, IF n.ok THEN n.val ELSE u64_from(0))

\* mutant: the suffix is parsed and the descriptor's time_unit applied
parse_interval_UnitWins(interval_str, default_time_unit) ==
  LET d == parse_duration(interval_str)
      n == parse_u64(interval_str)
  IN  IF d.ok THEN Some(to_millis(default_time_unit, d.val.value))
      ELSE IF n.ok THEN Some(to_millis(default_time_unit, n.val))
      ELSE None

\* mutant: a value that does not parse is taken as one unit
parse_interval_Lenient(interval_str, default_time_unit) ==
  LET d == parse_duration(interval_str)
      n == parse_u64(interval_str)
  IN  IF d.ok THEN Some(to_millis(d.val.unit, d.val.value))
      ELSE IF n.ok THEN Some(to_millis(default_time_unit, n.val))
      ELSE Some(to_millis(default_time_unit, u64_from(1)))

\* Scheduler::parse_interval: Ok(interval_millis) or Err
parse_interval(interval_str, default_time_unit) ==
  LET d == parse_duration(interval_str)
      n == parse_u64(interval_str)
  IN  IF d.ok THEN Some(to_millis(d.val.unit, d.val.value))
      ELSE IF n.ok THEN Some(to_millis(default_time_unit, n.val))
      ELSE None

\* the multiplication of to_millis inside parse_initial_delay overflows
parse_initial_delay_overflows(initial_delay, time_unit) ==
  LET d == parse_duration(initial_delay)
      n == parse_u64(initial_delay)
  IN  IF d.ok THEN to_millis_overflows(d.val.unit, d.val.value)
      ELSE to_millis_overflows(time_unit, IF n.ok THEN n.val ELSE u64_from(0))

\* the multiplication of to_millis inside parse_interval overflows
parse_interval_overflows(interval_str, default_time_unit) ==
  LET d == parse_duration(interval_str)
      n == parse_u64(interval_str)
  IN  IF d.ok THEN to_millis_overflows(d.val.unit, d.val.value)
      ELSE n.ok /\ to_millis_overflows(default_time_unit, n.val)

\* mutant: the gate compares without to_lowercase
IsDisabled_CaseSensitive(enabled) == enabled = <<"f","a","l","s","e">>

\* mutant: the gate trims the value before it compares
IsDisabled_Trimmed(enabled) == to_lowercase(trim(enabled)) = <<"f","a","l","s","e">>

\* the `enabled` gate of Scheduler::start
IsDisabled(enabled) == to_lowercase(enabled) = <<"f","a","l","s","e">>

\* ------------------------------------- #[scheduled]: compile-time checks
\* str::contains(pattern)
contains(s, p) ==
  \E i \in 1..(Len(s) - Len(p) + 1) : SubSeq(s, i, i + Len(p) - 1) = p

is_uppercase(c) == IndexIn(c, UpperChars) > 0

is_alphabetic(c) == IndexIn(c, UpperChars) > 0 \/ IndexIn(c, LowerChars) > 0

\* the text after the first occurrence of character c (all of s when absent)
after_first(s, c) == SubSeq(s, find(s, c) + 1, Len(s))

\* the leading run of ASCII digits
RECURSIVE leading_digits(_)
leading_digits(s) ==
  IF Len(s) > 0 /\ is_ascii_digit(s[1]) THEN <<s[1]>> \o leading_digits(Tail(s)) ELSE <<>>

TimeSuffixes == { <<"m","s">>, <<"s">>, <<"m">>, <<"h">>, <<"d">> }

\* validate_time_suffix: Some(error) or None
validate_time_suffix(value) ==
  IF starts_with(value, <<"$","{">>) THEN None
  ELSE LET trimmed == trim(value)
           split_pos == split_pos_of(trimmed)
           suffix == SubSeq(trimmed, split_pos + 1, Len(trimmed))
       IN  IF split_pos > 0 /\ split_pos < Len(trimmed)
             THEN IF \E n \in 1..Len(suffix) : is_uppercase(suffix[n])
                    THEN Some("invalid_time_suffix")
                  ELSE IF suffix \notin TimeSuffixes THEN Some("invalid_time_suffix")
                  ELSE None
             ELSE None

\* validate_config_placeholder_format: Some(error) or None
validate_config_placeholder_format(value) ==
  LET trimmed == trim(value)
      after == after_first(trimmed, "}")
  IN  IF starts_with(trimmed, <<"$","{">>) /\ ~ends_with(trimmed, <<"}">>)
        THEN Some("malformed_placeholder")
      ELSE IF /\ contains(trimmed, <<"$","{">>) /\ contains(trimmed, <<"}">>)
              /\ after # <<>> /\ trim(after) # <<>>
        THEN Some("placeholder_with_suffix")
      ELSE IF /\ starts_with(trimmed, <<"$","{">>) /\ contains(trimmed, <<"}">>)
              /\ trim(after) # <<>>
              /\ \E n \in 1..Len(after) : is_alphabetic(after[n])
        THEN Some("placeholder_with_extra_characters")
      ELSE None

\* validate_positive_value: Some(error) or None
validate_positive_value(value, allow_zero) ==
  IF starts_with(value, <<"$","{">>) THEN None
  ELSE LET num_str == leading_digits(trim(value))
       IN  IF ~allow_zero /\ parses_to_zero(num_str)
             THEN Some("interval_zero")
             ELSE None

\* parse_schedule_args: the first error the attribute's values raise, or None
\* (fixed_rate / fixed_delay / initial_delay are checked for placeholder
\* format while the arguments are read; suffix and sign rules follow for
\* interval schedules; cron, enabled and zone values are taken as they are)
parse_schedule_args(d) ==
  LET interval == d.schedule_type # "cron"
      checks == <<IF interval THEN validate_config_placeholder_format(d.schedule_value)
                              ELSE None,
                  validate_config_placeholder_format(d.initial_delay),
                  IF interval THEN validate_time_suffix(d.schedule_value) ELSE None,
                  IF interval THEN validate_time_suffix(d.initial_delay) ELSE None,
                  IF interval THEN validate_positive_value(d.schedule_value, FALSE)
                              ELSE None,
                  IF interval THEN validate_positive_value(d.initial_delay, TRUE)
                              ELSE None>>
  IN  IF \E n \in 1..Len(checks) : checks[n].ok
        THEN checks[CHOOSE n \in 1..Len(checks) :
                      checks[n].ok /\ \A m \in 1..(n-1) : ~checks[m].ok]
        ELSE None

\* ------------------------------------------------------------ descriptors
S_true == <<"t","r","u","e">>
S_False == <<"F","a","l","s","e">>
S_FALSE == <<"F","A","L","S","E">>
S_on_default_false == <<"$","{","o","n",":","f","a","l","s","e","}">>
S_on_required == <<"$","{","o","n","}">>
S_0 == <<"0">>
S_1 == <<"1">>
S_2ms == <<"2","m","s">>
S_local == <<"l","o","c","a","l">>
S_every_second == <<"*","/","1"," ","*"," ","*"," ","*"," ","*"," ","*">>
K_on == <<"o","n">>
S_0s == <<"0","s">>
S_5S == <<"5","S">>
S_neg1 == <<"-","1">>
S_ab == <<"a","b">>
S_z_default_0 == <<"$","{","z",":","0","}">>
S_z_default_5S == <<"$","{","z",":","5","S","}">>
S_open == <<"$","{","a">>
S_a_suffix == <<"$","{","a","}","s">>
S_not_cron == <<"x">>

\* A descriptor's `source` is its kind of work handle: "runnable" (a
\* RunnableTask), "function" (a ScheduledTask of a standalone function) or
\* "method" (a method of a registered instance).  start() walks the runnable
\* tasks first, then the functions, then the methods; every registry below
\* lists its descriptors in that order.
Descriptor(src, ty, val, delay, en) ==
  [source |-> src, schedule_type |-> ty, schedule_value |-> val,
   initial_delay |-> delay, enabled |-> en,
   time_unit |-> S_milliseconds, zone |-> S_local]

IntervalDescriptors ==
  { Descriptor(src, ty, val, delay, S_true) :
      src \in {"runnable", "function", "method"},
      ty \in {"fixed_rate", "fixed_delay"},
      val \in {S_1, S_2ms},
      delay \in {S_0, S_1} }

CronDescriptors ==
  { Descriptor(src, "cron", S_every_second, S_0, S_true) :
      src \in {"runnable", "function", "method"} }
  \cup { Descriptor("function", "cron", S_every_second, delay, S_true) :
           delay \in {S_1, S_2ms} }

\* descriptors whose `enabled` field is not the literal "true"
GatedDescriptors ==
  { Descriptor("function", ty, val, S_0, en) :
      ty \in {"fixed_rate"}, val \in {S_2ms},
      en \in {S_False, S_FALSE, S_on_default_false, S_on_required} }
  \cup { Descriptor("function", "cron", S_every_second, S_0, S_FALSE) }

\* the second descriptor of a two-descriptor registry
Companion == Descriptor("method", "fixed_rate", S_2ms, S_1, S_true)

\* descriptors with a value that is zero, unparsable, unresolvable or malformed
FaultyDescriptors ==
  { Descriptor("function", ty, val, S_0, S_true) :
      ty \in {"fixed_rate", "fixed_delay"},
      val \in {S_0, S_0s, S_z_default_0} }
  \cup { Descriptor("function", "fixed_rate", val, S_0, S_true) :
      val \in {S_5S, S_neg1, S_ab, S_z_default_5S, S_on_required, S_open, S_a_suffix} }
  \cup { Descriptor("function", "fixed_rate", S_2ms, delay, S_true) :
      delay \in {S_on_required, S_open} }
  \cup { Descriptor("function", "fixed_rate", S_2ms, S_0, en) :
      en \in {S_open, S_a_suffix} }
  \cup { Descriptor("function", "cron", val, S_0, S_true) :
      val \in {S_not_cron, S_on_required, S_open} }
  \cup { [Descriptor("function", "fixed_rate", S_2ms, S_0, S_true) EXCEPT !.zone = z] :
      z \in {S_on_required, S_open} }

\* disabled descriptors with a field that would not resolve or not parse
DisabledFaultyDescriptors ==
  { [Descriptor("function", "fixed_rate", S_2ms, S_0, S_FALSE) EXCEPT ![f] = S_on_required] :
      f \in {"schedule_value", "initial_delay", "zone"} }
  \cup { Descriptor("function", "cron", S_on_required, S_0, S_FALSE),
         Descriptor("function", "cron", S_not_cron, S_0, S_False) }

S_TRUE == <<"T","R","U","E">>
S_empty == <<>>
S_no == <<"n","o">>
S_space_false == <<" ","f","a","l","s","e">>

\* descriptors whose `enabled` is a text that is neither "true" nor "false"
OddlyEnabledDescriptors ==
  { Descriptor("method", "fixed_delay", S_2ms, S_1, en) :
      en \in {S_TRUE, S_empty, S_0, S_no, S_space_false} }

\* 2066035336255469781 * 1000 = 112 * 2^64 + 8
S_wraps_to_8 == <<"2","0","6","6","0","3","5","3","3","6","2","5","5","4","6","9","7","8","1","s">>
\* 2305843009213693952 * 1000 = 2^61 * 1000 = 125 * 2^64
S_wraps_to_0 == <<"2","3","0","5","8","4","3","0","0","9","2","1","3","6","9","3","9","5","2","s">>

\* descriptors with an interval or an initial delay whose product with the
\* factor of its unit does not fit 64 bits
OverflowDescriptors ==
  { Descriptor("function", "fixed_rate", S_wraps_to_8, S_1, S_true),
    Descriptor("function", "fixed_delay", S_2ms, S_wraps_to_0, S_true) }

\* what the program's attributes declare
DeclaredRegistries ==
  { <<d>> : d \in IntervalDescriptors \cup CronDescriptors \cup OddlyEnabledDescriptors }
  \cup { <<d, Companion>> :
           d \in GatedDescriptors \cup FaultyDescriptors \cup DisabledFaultyDescriptors
                   \cup OverflowDescriptors }
  \cup { <<Descriptor("function", "fixed_delay", S_2ms, S_1, S_true), Companion>>,
         <<Descriptor("function", "cron", S_every_second, S_0, S_true), Companion>>,
         <<Descriptor("runnable", "fixed_rate", S_2ms, S_1, S_true),
           Descriptor("method", "fixed_delay", S_2ms, S_1, S_true)>>,
         <<Descriptor("method", "fixed_delay", S_2ms, S_1, S_true),
           Descriptor("method", "cron", S_not_cron, S_0, S_on_required)>> }

\* a schedule_type that is none of "cron", "fixed_rate", "fixed_delay"
UnknownKind == "every"

S_sec == <<"s","e","c">>
S_2 == <<"2">>

\* a descriptor built by hand (ScheduledTask::builder, a hand-written
\* scheduled_methods table): its time_unit is any text
HandWritten(src, ty, tu) ==
  [Descriptor(src, ty, IF ty = "cron" THEN S_every_second ELSE S_2, S_0, S_true)
     EXCEPT !.time_unit = tu]

HandWrittenRegistries ==
  { <<HandWritten(src, ty, tu)>> :
      src \in {"function"},
      ty \in {"fixed_rate", "fixed_delay", "cron"},
      tu \in {S_sec, S_seconds, S_on_required} }
  \cup { <<HandWritten("function", UnknownKind, S_milliseconds), Companion>> }
  \cup { <<[HandWritten("function", "fixed_delay", S_on_required)
              EXCEPT !.enabled = S_FALSE, !.schedule_value = S_ab], Companion>>,
         <<[HandWritten("function", UnknownKind, S_sec)
              EXCEPT !.enabled = S_False], Companion>> }

\* the registries of programs that compile: every attribute passed
\* parse_schedule_args; descriptors built by hand do not go through it
Registries ==
  { r \in DeclaredRegistries : \A n \in 1..Len(r) : ~parse_schedule_args(r[n]).ok }
    \cup HandWrittenRegistries

Configs == { {}, {[key |-> K_on, value |-> S_true]} }

IsPlaceholder(s) == starts_with(s, <<"$","{">>)

\* the config store matters only to a registry that has a placeholder on "on"
ConfigsFor(reg) ==
  IF \E n \in 1..Len(reg) :
       \E f \in {"enabled", "schedule_value", "initial_delay", "zone", "time_unit"} :
         IsPlaceholder(reg[n][f]) /\ contains(reg[n][f], K_on)
    THEN Configs ELSE { {} }

\* Job::new_async of the cron capability accepts the expression
CronAccepts(expr) == expr = S_every_second

\* ----------------------------------------------------------------- state
VARIABLES
  registry,    \* the descriptors handed to start(), in the order it walks them
  config,      \* the config store
  phase,       \* "building", "built", "starting", "running", "start_failed",
               \* "start_panicked" (start() unwound from a panic),
               \* "shutting", "stopped", "stop_failed"
  idx,         \* start(): the next descriptor to register
  now,         \* the clock
  loops,       \* per descriptor: its spawned timer loop
  handles,     \* interval_handles, in push order
  cronJobs,    \* jobs added to the cron capability, in the order of add()
  cronUp,      \* the cron capability is started and not shut down
  cronFires,   \* per descriptor: callbacks delivered
  exec,        \* per descriptor: its executions, in dispatch order
  lastEnd,     \* per descriptor: the instant its latest execution completed
  abortIdx,    \* shutdown(): the next handle to abort
  printed,     \* per descriptor: what start() printed of it, "none" so far,
               \* "disabled", "error" or "registered"
  call,        \* a direct call of one of the pure functions: its arguments
  ret          \* what that call returned

vars == <<registry, config, phase, idx, now, loops, handles, cronJobs, cronUp,
          cronFires, exec, lastEnd, abortIdx, printed, call, ret>>

Tasks == 1..Len(registry)

\* the cron capability holds a job of descriptor i
HasCronJob(i) == \E n \in 1..Len(cronJobs) : cronJobs[n] = i

\* no direct call / no value returned yet
NoCall == [fn |-> "none"]
Pending == [ok |-> FALSE, pending |-> TRUE]

NoLoop == [pc |-> "none", at |-> 0, period |-> 0, delay |-> 0, spawnAt |-> 0,
           fixed_delay |-> FALSE, abortReq |-> FALSE, ticks |-> 0]

Init ==
  /\ registry \in Registries
  /\ config \in ConfigsFor(registry)
  /\ phase = "built"
  /\ idx = 1
  /\ now = 0
  /\ loops = [i \in 1..Len(registry) |-> NoLoop]
  /\ handles = <<>>
  /\ cronJobs = <<>>
  /\ cronUp = FALSE
  /\ cronFires = [i \in 1..Len(registry) |-> 0]
  /\ exec = [i \in 1..Len(registry) |-> <<>>]
  /\ lastEnd = [i \in 1..Len(registry) |-> -1]
  /\ abortIdx = 1
  /\ printed = [i \in 1..Len(registry) |-> "none"]
  /\ call = NoCall
  /\ ret = Pending

\* ------------------------------------------------------------- start()
RECURSIVE le_bytes_value(_)
le_bytes_value(b) ==
  IF Len(b) = 0 THEN 0 ELSE b[1] + 256 * le_bytes_value(Tail(b))

\* Duration::from_millis on the clock of the model: every duration longer
\* than the clock runs is the same one, MaxTime + 1
Duration_from_millis(n) ==
  IF /\ \A i \in 4..Len(n) : n[i] = 0
     /\ le_bytes_value(SubSeq(n, 1, 3)) <= MaxTime
    THEN le_bytes_value(SubSeq(n, 1, 3))
    ELSE MaxTime + 1

\* mutant: every descriptor is spawned as a timer loop, whatever its type
Registration_AlwaysLoop(d, cfg) ==
  [kind |-> "loop", interval_millis |-> 1, initial_delay_millis |-> 0,
   is_fixed_delay |-> FALSE]

\* register_runnable_task / register_scheduled_task / register_method_task:
\* what one enabled descriptor is turned into
Registration(d, cfg) ==
  LET time_unit_str == resolve_config_value(d.time_unit, cfg)
      initial_delay == resolve_config_value(d.initial_delay, cfg)
      zone_str == resolve_config_value(d.zone, cfg)
      value == resolve_config_value(d.schedule_value, cfg)
      time_unit == parse_time_unit(time_unit_str.val)
      interval == parse_interval(value.val, time_unit)
  IN  IF ~time_unit_str.ok \/ ~initial_delay.ok \/ ~zone_str.ok THEN [kind |-> "error"]
      ELSE IF d.schedule_type = "cron"
        THEN IF value.ok /\ CronAccepts(value.val)
               THEN [kind |-> "cron", cron_expr |-> value.val]
               ELSE [kind |-> "error"]
      ELSE IF d.schedule_type \in {"fixed_rate", "fixed_delay"}
        THEN IF value.ok /\ interval.ok
               THEN [kind |-> "loop",
                     interval_millis |-> Duration_from_millis(interval.val),
                     initial_delay_millis |->
                         Duration_from_millis(
                             parse_initial_delay(initial_delay.val, time_unit)),
                     is_fixed_delay |-> d.schedule_type = "fixed_delay"]
               ELSE [kind |-> "error"]
      ELSE [kind |-> "error"]

\* a registration reaches a to_millis whose product does not fit 64 bits: the
\* initial delay is converted once time_unit and initial_delay resolved, the
\* interval once the zone and the value resolved too
RegistrationOverflows(d, cfg) ==
  LET time_unit_str == resolve_config_value(d.time_unit, cfg)
      initial_delay == resolve_config_value(d.initial_delay, cfg)
      zone_str == resolve_config_value(d.zone, cfg)
      value == resolve_config_value(d.schedule_value, cfg)
      time_unit == parse_time_unit(time_unit_str.val)
  IN  /\ time_unit_str.ok
      /\ initial_delay.ok
      /\ \/ parse_initial_delay_overflows(initial_delay.val, time_unit)
         \/ /\ zone_str.ok
            /\ d.schedule_type \in {"fixed_rate", "fixed_delay"}
            /\ value.ok
            /\ parse_interval_overflows(value.val, time_unit)

\* mutant: the loop does not sleep its initial delay
InitialWake_NoSleep(spawnAt, initial_delay_millis) == spawnAt

\* the instant the loop leaves its initial wait
InitialWake(spawnAt, initial_delay_millis) ==
  IF initial_delay_millis > 0 THEN spawnAt + initial_delay_millis ELSE spawnAt

\* mutant: the Scheduler can be started again once it runs
SchedulerOwned_Copied == phase \in {"built", "running"}

\* start(self) takes the Scheduler by value: it can be called while build()
\* has returned it and no start() has consumed it
SchedulerOwned == phase = "built"

\* start() is called: JobScheduler::new() succeeds or fails
Start ==
  /\ SchedulerOwned
  /\ \E ok \in BOOLEAN : phase' = IF ok THEN "starting" ELSE "start_failed"
  /\ UNCHANGED <<call, ret, registry, config, idx, now, loops, handles, cronJobs, cronUp,
                 cronFires, exec, lastEnd, abortIdx>>
  /\ UNCHANGED printed

\* mutant: the error of a registration is propagated with `?`
AfterRegistration_Propagated(r) ==
  IF r.kind = "error" THEN "start_failed" ELSE "starting"

\* `if let Err(e) = Self::register_..(..).await { eprintln!(..) }`: the error
\* of a registration is logged and start() goes on
AfterRegistration(r) == "starting"

\* one iteration of the three `for task in ...` loops of start().  to_millis
\* multiplies with `*`: when the product does not fit 64 bits a build with
\* overflow checks panics there, inside start(), and a build without them
\* goes on with the product modulo 2^64
Register ==
  /\ phase = "starting"
  /\ idx <= Len(registry)
  /\ LET d == registry[idx]
         enabled == resolve_config_value(d.enabled, config)
         r == Registration(d, config)
     IN  IF ~enabled.ok
           THEN /\ phase' = "start_failed"
                /\ UNCHANGED <<idx, loops, handles, cronJobs, printed>>
         ELSE IF IsDisabled(enabled.val)
           THEN /\ idx' = idx + 1
                /\ printed' = [printed EXCEPT ![idx] = "disabled"]
                /\ UNCHANGED <<phase, loops, handles, cronJobs>>
         ELSE \E overflow_checks \in BOOLEAN :
           IF overflow_checks /\ RegistrationOverflows(d, config)
             THEN /\ phase' = "start_panicked"
                  /\ UNCHANGED <<idx, loops, handles, cronJobs, printed>>
           ELSE /\ idx' = idx + 1
                /\ printed' = [printed EXCEPT ![idx] =
                                  IF r.kind = "error" THEN "error" ELSE "registered"]
                /\ phase' = AfterRegistration(r)
                /\ loops' = IF r.kind = "loop"
                              THEN [loops EXCEPT ![idx] =
                                      [pc |-> "sleep",
                                       at |-> InitialWake(now, r.initial_delay_millis),
                                       period |-> r.interval_millis,
                                       delay |-> r.initial_delay_millis,
                                       spawnAt |-> now,
                                       fixed_delay |-> r.is_fixed_delay,
                                       abortReq |-> FALSE,
                                       ticks |-> 0]]
                              ELSE loops
                /\ handles' = IF r.kind = "loop" THEN Append(handles, idx) ELSE handles
                /\ cronJobs' = IF r.kind = "cron" THEN Append(cronJobs, idx) ELSE cronJobs
  /\ UNCHANGED <<call, ret, registry, config, now, cronUp, cronFires, exec, lastEnd, abortIdx>>

\* scheduler.start().await? and Ok(SchedulerHandle { .. })
StartFinish ==
  /\ phase = "starting"
  /\ idx > Len(registry)
  /\ \E ok \in BOOLEAN :
       /\ phase' = IF ok THEN "running" ELSE "start_failed"
       /\ cronUp' = ok
  /\ UNCHANGED <<call, ret, registry, config, idx, now, loops, handles, cronJobs,
                 cronFires, exec, lastEnd, abortIdx>>
  /\ UNCHANGED printed

\* --------------------------------------------------------- timer loops
\* tokio::time::interval with the default MissedTickBehavior::Burst: the next
\* tick is due one period after the deadline of the tick just delivered
\* mutant: the interval never completes a tick after its first
NextDeadline_Never(timeout, period) == MaxTime + 1

NextDeadline(timeout, period) == timeout + period

\* mutant: the first, immediate tick is not consumed before the loop
AfterFirstTick_RunsAtOnce(is_fixed_delay) == "run"

\* where the loop stands once `interval.tick().await` before `loop` returned:
\* fixed_delay runs the work first, fixed_rate awaits the next tick first
AfterFirstTick(is_fixed_delay) == IF is_fixed_delay THEN "run" ELSE "tick"

\* mutant: the fixed_rate branch awaits the work like the fixed_delay branch
WorkInvocation_AlwaysAwaited(source, is_fixed_delay) ==
  CASE source = "runnable" -> "blocking"
    [] source = "function" -> "detached"
    [] source = "method" -> "inline"

\* how the loop body invokes the work:
\*   "inline"   the future is awaited inside the loop task
\*   "blocking" run() is put on the blocking pool and awaited
\*   "detached" the work is spawned as a task of its own and not awaited
\* (a standalone function's handler is `|| { tokio::spawn(async { f().await }); }`)
WorkInvocation(source, is_fixed_delay) ==
  IF is_fixed_delay
    THEN CASE source = "runnable" -> "blocking"
           [] source = "function" -> "detached"
           [] source = "method" -> "inline"
    ELSE "detached"

NewExec(st, inline) == [st |-> st, atCall |-> FALSE, inline |-> inline]

Running(i) == { k \in 1..Len(exec[i]) : exec[i][k].st = "running" }
Queued(i) == { k \in 1..Len(exec[i]) : exec[i][k].st = "queued" }

\* the loop's initial sleep is over: the interval is created, its first tick
\* completes at once and is consumed
LoopWake(i) ==
  /\ loops[i].pc = "sleep"
  /\ now >= loops[i].at
  /\ loops' = [loops EXCEPT ![i] =
       IF loops[i].period = 0
         THEN [@ EXCEPT !.pc = "panicked"]
         ELSE [@ EXCEPT !.pc = AfterFirstTick(loops[i].fixed_delay),
                        !.at = NextDeadline(now, loops[i].period),
                        !.ticks = 1]]
  /\ UNCHANGED <<call, ret, registry, config, phase, idx, now, handles, cronJobs, cronUp,
                 cronFires, exec, lastEnd, abortIdx>>
  /\ UNCHANGED printed

\* `interval.tick().await` inside `loop` returns
LoopTick(i) ==
  /\ loops[i].pc = "tick"
  /\ now >= loops[i].at
  /\ loops' = [loops EXCEPT ![i] =
       [@ EXCEPT !.pc = "run",
                 !.at = NextDeadline(loops[i].at, loops[i].period),
                 !.ticks = @ + 1]]
  /\ UNCHANGED <<call, ret, registry, config, phase, idx, now, handles, cronJobs, cronUp,
                 cronFires, exec, lastEnd, abortIdx>>
  /\ UNCHANGED printed

\* the loop invokes the work
LoopInvoke(i) ==
  /\ loops[i].pc = "run"
  /\ LET mode == WorkInvocation(registry[i].source, loops[i].fixed_delay)
     IN  /\ exec' = [exec EXCEPT ![i] =
               Append(@, IF mode = "inline" THEN NewExec("running", TRUE)
                                            ELSE NewExec("queued", FALSE))]
         /\ loops' = [loops EXCEPT ![i].pc =
               IF loops[i].abortReq THEN "aborted"
               ELSE IF mode = "detached" THEN "tick" ELSE "await_body"]
  /\ UNCHANGED <<call, ret, registry, config, phase, idx, now, handles, cronJobs, cronUp,
                 cronFires, lastEnd, abortIdx>>
  /\ UNCHANGED printed

\* a spawned execution is picked up by a worker (or blocking) thread
BodyBegin(i) ==
  /\ \E k \in Queued(i) :
       /\ exec' = [exec EXCEPT ![i][k].st = "running"]
  /\ UNCHANGED <<call, ret, registry, config, phase, idx, now, loops, handles, cronJobs,
                 cronUp, cronFires, lastEnd, abortIdx>>
  /\ UNCHANGED printed

\* an execution runs to completion; a fixed_delay loop awaiting it resumes
BodyComplete(i) ==
  /\ \E k \in Running(i) :
       /\ exec' = [exec EXCEPT ![i][k].st = "done"]
       /\ lastEnd' = [lastEnd EXCEPT ![i] = now]
  /\ loops' = [loops EXCEPT ![i].pc = IF @ = "await_body" THEN "tick" ELSE @]
  /\ UNCHANGED <<call, ret, registry, config, phase, idx, now, handles, cronJobs, cronUp,
                 cronFires, abortIdx>>
  /\ UNCHANGED printed

\* executions that panicked or never return, over all tasks
Faults ==
  UNION { { <<i, k>> : k \in { n \in 1..Len(exec[i]) :
                                  exec[i][n].st \in {"panicked", "hung"} } } :
          i \in Tasks }

\* mutant: a panic in a body takes every timer loop down
AfterPanic_KillsAll(ls, i, inline) ==
  [j \in DOMAIN ls |-> [ls[j] EXCEPT !.pc = IF @ = "none" THEN @ ELSE "panicked"]]

\* the timer loops after a body of task i panicked: a body awaited inside the
\* loop task unwinds that task; a body on the blocking pool ends with a
\* JoinError that `.await.ok()` drops; a spawned body is a task of its own
AfterPanic(ls, i, inline) ==
  [ls EXCEPT ![i].pc = IF @ = "await_body"
                         THEN IF inline THEN "panicked" ELSE "tick"
                         ELSE @]

\* an execution panics
BodyPanic(i) ==
  /\ Cardinality(Faults) < MaxFaults
  /\ \E k \in Running(i) :
       /\ exec' = [exec EXCEPT ![i][k].st = "panicked"]
       /\ loops' = AfterPanic(loops, i, exec[i][k].inline)
  /\ lastEnd' = [lastEnd EXCEPT ![i] = now]
  /\ UNCHANGED <<call, ret, registry, config, phase, idx, now, handles, cronJobs,
                 cronUp, cronFires, abortIdx>>
  /\ UNCHANGED printed

\* an execution never returns
BodyHang(i) ==
  /\ Cardinality(Faults) < MaxFaults
  /\ \E k \in Running(i) :
       /\ exec' = [exec EXCEPT ![i][k].st = "hung"]
  /\ UNCHANGED <<call, ret, registry, config, phase, idx, now, loops, handles,
                 cronJobs, cronUp, cronFires, lastEnd, abortIdx>>
  /\ UNCHANGED printed

\* the future of an aborted loop is dropped, and with it a body awaited inline
BodyCancel(i) ==
  /\ loops[i].pc = "aborted"
  /\ \E k \in 1..Len(exec[i]) :
       /\ exec[i][k].st \in {"running", "hung"}
       /\ exec[i][k].inline
       /\ exec' = [exec EXCEPT ![i][k].st = "cancelled"]
  /\ UNCHANGED <<call, ret, registry, config, phase, idx, now, loops, handles, cronJobs,
                 cronUp, cronFires, lastEnd, abortIdx>>
  /\ UNCHANGED printed

\* mutant: the job of a cron descriptor waits the descriptor's initial delay
CronLiveFrom_AfterInitialDelay(i) ==
  Duration_from_millis(
    parse_initial_delay(resolve_config_value(registry[i].initial_delay, config).val,
                        parse_time_unit(
                          resolve_config_value(registry[i].time_unit, config).val)))

\* the earliest instant the cron capability may fire the job of descriptor i:
\* initial_delay_millis is printed by print_cron_info and used nowhere else,
\* and scheduler.add(job) is awaited during start()
CronLiveFrom(i) == 0

\* the cron capability invokes the job's callback
CronFire(i) ==
  /\ HasCronJob(i)
  /\ cronUp
  /\ now >= CronLiveFrom(i)
  /\ cronFires[i] < MaxCronFires
  /\ cronFires' = [cronFires EXCEPT ![i] = @ + 1]
  /\ exec' = [exec EXCEPT ![i] = Append(@, NewExec("queued", FALSE))]
  /\ UNCHANGED <<call, ret, registry, config, phase, idx, now, loops, handles, cronJobs,
                 cronUp, lastEnd, abortIdx>>
  /\ UNCHANGED printed

\* ------------------------------------------------------------ shutdown()
\* shutdown(mut self) takes the SchedulerHandle by value: it can be called
\* while start() has returned it and no shutdown() has consumed it
HandleOwned == phase = "running"

\* JoinHandle::abort on loop l: a suspended task is cancelled; a task that is
\* being polled on another worker finishes that poll first
AbortOutcomes(l) ==
  IF l.pc \in {"sleep", "tick", "await_body"} THEN { [l EXCEPT !.pc = "aborted"] }
  ELSE IF l.pc = "run" THEN { [l EXCEPT !.pc = "aborted"], [l EXCEPT !.abortReq = TRUE] }
  ELSE { l }

\* what shutdown() does once the cron capability answered: `?` returns on Err
AfterCronShutdown(ok) == IF ok THEN "shutting" ELSE "stop_failed"

\* self.cron_scheduler.shutdown().await?
ShutdownCall ==
  /\ HandleOwned
  /\ \E ok \in BOOLEAN :
       /\ phase' = AfterCronShutdown(ok)
       /\ cronUp' = ~ok
  /\ exec' = [i \in Tasks |->
                [k \in 1..Len(exec[i]) |->
                   [exec[i][k] EXCEPT !.atCall = (exec[i][k].st = "running")]]]
  /\ abortIdx' = 1
  /\ UNCHANGED <<call, ret, registry, config, idx, now, loops, handles, cronJobs,
                 cronFires, lastEnd>>
  /\ UNCHANGED printed

\* one iteration of `for handle in self.interval_handles { handle.abort(); }`
ShutdownAbort ==
  /\ phase = "shutting"
  /\ abortIdx <= Len(handles)
  /\ \E l \in AbortOutcomes(loops[handles[abortIdx]]) :
       loops' = [loops EXCEPT ![handles[abortIdx]] = l]
  /\ abortIdx' = abortIdx + 1
  /\ UNCHANGED <<call, ret, registry, config, phase, idx, now, handles, cronJobs, cronUp,
                 cronFires, exec, lastEnd>>
  /\ UNCHANGED printed

\* Ok(())
ShutdownReturn ==
  /\ phase = "shutting"
  /\ abortIdx > Len(handles)
  /\ phase' = "stopped"
  /\ UNCHANGED <<call, ret, registry, config, idx, now, loops, handles, cronJobs, cronUp,
                 cronFires, exec, lastEnd, abortIdx>>
  /\ UNCHANGED printed

\* ------------------------------------------------------------------ time
\* work that is due now: the clock does not advance past it
Urgent ==
  \/ phase \in {"starting", "shutting"}
  \/ \E i \in Tasks :
       \/ loops[i].pc \in {"sleep", "tick"} /\ now >= loops[i].at
       \/ loops[i].pc = "run"
       \/ Queued(i) # {}

Tick ==
  /\ now < MaxTime
  /\ ~Urgent
  /\ phase \in {"building", "built"} => now < MaxStartAt
  /\ now' = now + 1
  /\ UNCHANGED <<call, ret, registry, config, phase, idx, loops, handles, cronJobs, cronUp,
                 cronFires, exec, lastEnd, abortIdx>>
  /\ UNCHANGED printed

Next ==
  \/ Start
  \/ Register
  \/ StartFinish
  \/ \E i \in Tasks : LoopWake(i)
  \/ \E i \in Tasks : LoopTick(i)
  \/ \E i \in Tasks : LoopInvoke(i)
  \/ \E i \in Tasks : BodyBegin(i)
  \/ \E i \in Tasks : BodyComplete(i)
  \/ \E i \in Tasks : BodyPanic(i)
  \/ \E i \in Tasks : BodyHang(i)
  \/ \E i \in Tasks : BodyCancel(i)
  \/ \E i \in Tasks : CronFire(i)
  \/ ShutdownCall
  \/ ShutdownAbort
  \/ ShutdownReturn
  \/ Tick

Spec == Init /\ [][Next]_vars

\* ------------------------------------------- resolve_config_value, alone
\* the characters raw values are made of
RawChars == {"$", "{", "}", ":", "a"}

\* every raw value of at most MaxRawLen characters
RawValues == UNION { [1..n -> RawChars] : n \in 0..MaxRawLen }

K_a == <<"a">>
S_v == <<"v">>

\* config stores: without and with the key "a"
ResolveStores == { {}, {[key |-> K_a, value |-> S_v]} }

ResolveInit ==
  /\ call \in { [fn |-> "resolve_config_value", value |-> v] : v \in RawValues }
  /\ config \in ResolveStores
  /\ ret = Pending
  /\ registry = <<>>
  /\ phase = "built"
  /\ idx = 1
  /\ now = 0
  /\ loops = <<>>
  /\ handles = <<>>
  /\ cronJobs = <<>>
  /\ cronUp = FALSE
  /\ cronFires = <<>>
  /\ exec = <<>>
  /\ lastEnd = <<>>
  /\ abortIdx = 1
  /\ printed = [i \in 1..Len(registry) |-> "none"]

\* resolve_config_value(value, &config) is called and returns
CallResolve ==
  /\ call.fn = "resolve_config_value"
  /\ ret = Pending
  /\ ret' = resolve_config_value(call.value, config)
  /\ UNCHANGED <<call, registry, config, phase, idx, now, loops, handles,
                 cronJobs, cronUp, cronFires, exec, lastEnd, abortIdx>>
  /\ UNCHANGED printed

ResolveNext == CallResolve

SpecResolve == ResolveInit /\ [][ResolveNext]_vars

\* ------------------------------------------------ the scheduler, fairly run
\* registries of one descriptor, valid and enabled: an interval of one
\* millisecond after an initial delay of one, or a cron expression
LiveRegistries ==
  { <<Descriptor(src, ty, S_1, S_1, S_true)>> :
      src \in {"runnable", "function", "method"},
      ty \in {"fixed_rate", "fixed_delay"} }
  \cup { <<Descriptor("function", "cron", S_every_second, S_0, S_true)>> }

LiveTaskIds == 1..1

LiveInit ==
  /\ registry \in LiveRegistries
  /\ config = {}
  /\ phase = "built"
  /\ idx = 1
  /\ now = 0
  /\ loops = [i \in 1..Len(registry) |-> NoLoop]
  /\ handles = <<>>
  /\ cronJobs = <<>>
  /\ cronUp = FALSE
  /\ cronFires = [i \in 1..Len(registry) |-> 0]
  /\ exec = [i \in 1..Len(registry) |-> <<>>]
  /\ lastEnd = [i \in 1..Len(registry) |-> -1]
  /\ abortIdx = 1
  /\ printed = [i \in 1..Len(registry) |-> "none"]
  /\ call = NoCall
  /\ ret = Pending

\* the runtime polls every task that is ready, a worker picks up every
\* spawned execution, a body that does not hang returns, and time passes;
\* calling start() and shutdown() is left to the program
LiveFairness ==
  /\ WF_vars(Tick)
  /\ \A i \in LiveTaskIds :
       /\ WF_vars(i \in Tasks /\ LoopWake(i))
       /\ WF_vars(i \in Tasks /\ LoopTick(i))
       /\ WF_vars(i \in Tasks /\ LoopInvoke(i))
       /\ WF_vars(i \in Tasks /\ BodyBegin(i))
       /\ WF_vars(i \in Tasks /\ BodyComplete(i))

SpecLive == LiveInit /\ [][Next]_vars /\ LiveFairness

\* ------------------------------------------- the builder and the lifecycle
\* descriptors a program hands to the builder
BuilderDescriptors ==
  { Descriptor("method", "fixed_delay", S_2ms, S_0, S_true),
    Descriptor("function", "cron", S_every_second, S_0, S_true) }

LifecycleInit ==
  /\ registry = <<>>
  /\ config = {}
  /\ phase = "building"
  /\ idx = 1
  /\ now = 0
  /\ loops = <<>>
  /\ handles = <<>>
  /\ cronJobs = <<>>
  /\ cronUp = FALSE
  /\ cronFires = <<>>
  /\ exec = <<>>
  /\ lastEnd = <<>>
  /\ abortIdx = 1
  /\ printed = [i \in 1..Len(registry) |-> "none"]
  /\ call = NoCall
  /\ ret = Pending

\* SchedulerBuilder::register(self, instance) -> Self (and, for functions, the
\* link-time SCHEDULED_TASKS entries): one more descriptor, while the builder
\* is held
BuilderRegister ==
  /\ phase = "building"
  /\ \E d \in BuilderDescriptors :
       /\ \A n \in 1..Len(registry) : registry[n] # d
       /\ registry' = Append(registry, d)
  /\ loops' = Append(loops, NoLoop)
  /\ cronFires' = Append(cronFires, 0)
  /\ exec' = Append(exec, <<>>)
  /\ lastEnd' = Append(lastEnd, -1)
  /\ printed' = Append(printed, "none")
  /\ UNCHANGED <<call, ret, config, phase, idx, now, handles, cronJobs, cronUp,
                 abortIdx>>

\* SchedulerBuilder::build(self) -> Scheduler
Build ==
  /\ phase = "building"
  /\ phase' = "built"
  /\ UNCHANGED <<call, ret, registry, config, idx, now, loops, handles, cronJobs,
                 cronUp, cronFires, exec, lastEnd, abortIdx>>
  /\ UNCHANGED printed

LifecycleNext ==
  \/ BuilderRegister
  \/ Build
  \/ Next

SpecLifecycle == LifecycleInit /\ [][LifecycleNext]_vars

\* ------------------------------------------ methods of registered instances
\* the descriptor of one #[scheduled] method of the registered instance inst
MethodOf(inst, ty, val, en) ==
  [source |-> "method", instance |-> inst, schedule_type |-> ty,
   schedule_value |-> val, initial_delay |-> S_0, enabled |-> en,
   time_unit |-> S_milliseconds, zone |-> S_local]

\* methods that are disabled or whose registration fails
SkippedMethods(inst) ==
  { MethodOf(inst, "fixed_rate", S_2ms, S_False),
    MethodOf(inst, "fixed_delay", S_ab, S_true),
    MethodOf(inst, "fixed_rate", S_on_required, S_true),
    MethodOf(inst, "cron", S_not_cron, S_true) }

\* methods that are enabled and valid
ScheduledMethods(inst) ==
  { MethodOf(inst, "fixed_delay", S_2ms, S_true),
    MethodOf(inst, "cron", S_every_second, S_true) }

\* registered_instances, flattened in the order start() walks them: the
\* methods of one instance, or of two instances, one skipped and one valid
MethodRegistries ==
  UNION { { <<a, b>>, <<b, a>> } :
            a \in SkippedMethods(1),
            b \in ScheduledMethods(1) \cup ScheduledMethods(2) }

MethodsInit ==
  /\ registry \in MethodRegistries
  /\ config = {}
  /\ phase = "built"
  /\ idx = 1
  /\ now = 0
  /\ loops = [i \in 1..Len(registry) |-> NoLoop]
  /\ handles = <<>>
  /\ cronJobs = <<>>
  /\ cronUp = FALSE
  /\ cronFires = [i \in 1..Len(registry) |-> 0]
  /\ exec = [i \in 1..Len(registry) |-> <<>>]
  /\ lastEnd = [i \in 1..Len(registry) |-> -1]
  /\ abortIdx = 1
  /\ printed = [i \in 1..Len(registry) |-> "none"]
  /\ call = NoCall
  /\ ret = Pending

SpecMethods == MethodsInit /\ [][Next]_vars

\* ------------------------------------- the duration and unit parsers, alone
Units == {"Milliseconds", "Seconds", "Minutes", "Hours", "Days"}

DurChars == {"0", "5", "m", "s", "S", " ", "+"}

\* every text of at most MaxDurLen characters of DurChars
ShortDurations == UNION { [1..n -> DurChars] : n \in 0..MaxDurLen }

S_u64_max == <<"1","8","4","4","6","7","4","4","0","7",
               "3","7","0","9","5","5","1","6","1","5">>
S_u64_max_plus_1 == <<"1","8","4","4","6","7","4","4","0","7",
                      "3","7","0","9","5","5","1","6","1","6">>

\* texts with the other suffixes, other characters and long digit runs
DurationSamples ==
  { <<"5","h">>, <<"5","d">>, <<"1","2","m","s">>, <<"0","7","d">>,
    <<"5","s","e","c">>, <<"5","m","i","n">>, <<"5","H">>, <<"5","D">>,
    <<"5"," ","s">>, <<"5",".","5","s">>, <<"-","5","s">>, <<"1","2">>,
    <<" ","1","2","h"," ">>, <<"9","9","9","9","9","9","d">> }

LongDurations ==
  { S_u64_max \o <<"s">>, S_u64_max_plus_1 \o <<"s">>,
    <<"0","0">> \o S_u64_max \o <<"m","s">>,
    <<" ">> \o S_u64_max_plus_1 \o <<"d">>,
    S_u64_max, S_u64_max_plus_1 }

\* the largest value whose product with the factor of the unit fits in 64 bits
LargestFor(unit) ==
  CASE unit = "Milliseconds" -> u64_MAX
    [] unit = "Seconds" -> div_rem(u64_MAX, 1000).q
    [] unit = "Minutes" -> div_rem(u64_MAX, 60000).q
    [] unit = "Hours" -> div_rem(u64_MAX, 3600000).q
    [] unit = "Days" -> div_rem(div_rem(u64_MAX, 1000).q, 86400).q

\* values handed to to_millis: the small ones, and for each unit the largest
\* whose product fits and the one after it
MillisValues ==
  { u64_from(v) : v \in 0..MaxMillisValue }
    \cup { LargestFor(u) : u \in Units }
    \cup { overflowing_mul_add(LargestFor(u), 1, 1).val : u \in Units \ {"Milliseconds"} }

Panicked == [ok |-> FALSE, panic |-> TRUE]

UnitWords == {S_milliseconds, S_seconds, S_minutes, S_hours, S_days}

\* every spelling of a word in upper-case and lower-case letters
Spellings(w) ==
  { [i \in 1..Len(w) |-> IF i \in up THEN UpperChar(w[i]) ELSE w[i]] :
      up \in SUBSET (1..Len(w)) }

\* texts that are no unit name: the abbreviations, singulars, padded names
NotUnitNames ==
  { <<"m","s">>, <<"s">>, <<"s","e","c">>, <<"m","i","n">>, <<"h">>, <<"d">>,
    <<"m">>, <<"M","S">>, <<"S","e","c">>, <<"s","e","c","s">>,
    <<"s","e","c","o","n","d">>, <<"h","o","u","r">>, <<"d","a","y">>,
    <<"m","i","l","l","i","s">>, <<"m","i","n","u","t","e">>,
    <<" ","d","a","y","s">>, <<"d","a","y","s"," ">>, <<"5","s">>, <<>>,
    <<"d","a","y","s","s">>, <<"w","e","e","k","s">> }

UnitNameTexts == UNION { Spellings(w) : w \in UnitWords } \cup NotUnitNames

\* texts handed to parse_initial_delay and parse_interval: those of
\* parse_duration whose number, if they have one, does not overflow in to_millis
DelayTexts ==
  ShortDurations \cup DurationSamples
    \cup { S_u64_max_plus_1, S_u64_max_plus_1 \o <<"s">> }

ParseInit ==
  /\ call \in { [fn |-> "parse_duration", s |-> t] :
                  t \in ShortDurations \cup DurationSamples \cup LongDurations }
              \cup { [fn |-> "to_millis", unit |-> u, value |-> v] :
                       u \in Units, v \in MillisValues }
              \cup { [fn |-> "from_str", s |-> t] : t \in UnitNameTexts }
              \cup { [fn |-> "parse_initial_delay", s |-> t, unit |-> u] :
                       t \in DelayTexts, u \in Units }
              \cup { [fn |-> "parse_interval", s |-> t, unit |-> u] :
                       t \in DelayTexts, u \in Units }
  /\ config = {}
  /\ ret = Pending
  /\ registry = <<>>
  /\ phase = "built"
  /\ idx = 1
  /\ now = 0
  /\ loops = <<>>
  /\ handles = <<>>
  /\ cronJobs = <<>>
  /\ cronUp = FALSE
  /\ cronFires = <<>>
  /\ exec = <<>>
  /\ lastEnd = <<>>
  /\ abortIdx = 1
  /\ printed = [i \in 1..Len(registry) |-> "none"]

\* TimeUnit::parse_duration(s) is called and returns
CallParseDuration ==
  /\ call.fn = "parse_duration"
  /\ ret = Pending
  /\ ret' = parse_duration(call.s)
  /\ UNCHANGED <<call, registry, config, phase, idx, now, loops, handles,
                 cronJobs, cronUp, cronFires, exec, lastEnd, abortIdx>>
  /\ UNCHANGED printed

\* unit.to_millis(value) is called: it returns the product, or, when the
\* product does not fit in 64 bits, panics (overflow checks on) or returns the
\* product modulo 2^64 (overflow checks off)
CallToMillis ==
  /\ call.fn = "to_millis"
  /\ ret = Pending
  /\ ret' \in IF to_millis_overflows(call.unit, call.value)
               THEN {Panicked, Some(to_millis(call.unit, call.value))}
               ELSE {Some(to_millis(call.unit, call.value))}
  /\ UNCHANGED <<call, registry, config, phase, idx, now, loops, handles,
                 cronJobs, cronUp, cronFires, exec, lastEnd, abortIdx>>
  /\ UNCHANGED printed

\* s.parse::<TimeUnit>() is called and returns
CallFromStr ==
  /\ call.fn = "from_str"
  /\ ret = Pending
  /\ ret' = TimeUnit_from_str(call.s)
  /\ UNCHANGED <<call, registry, config, phase, idx, now, loops, handles,
                 cronJobs, cronUp, cronFires, exec, lastEnd, abortIdx>>
  /\ UNCHANGED printed

\* Scheduler::parse_initial_delay(initial_delay, time_unit) is called and
\* returns
CallParseInitialDelay ==
  /\ call.fn = "parse_initial_delay"
  /\ ret = Pending
  /\ ret' = Some(parse_initial_delay(call.s, call.unit))
  /\ UNCHANGED <<call, registry, config, phase, idx, now, loops, handles,
                 cronJobs, cronUp, cronFires, exec, lastEnd, abortIdx>>
  /\ UNCHANGED printed

\* Scheduler::parse_interval(interval_str, default_time_unit) is called and
\* returns
CallParseInterval ==
  /\ call.fn = "parse_interval"
  /\ ret = Pending
  /\ ret' = parse_interval(call.s, call.unit)
  /\ UNCHANGED <<call, registry, config, phase, idx, now, loops, handles,
                 cronJobs, cronUp, cronFires, exec, lastEnd, abortIdx>>
  /\ UNCHANGED printed

ParseNext ==
  \/ CallParseDuration
  \/ CallToMillis
  \/ CallFromStr
  \/ CallParseInitialDelay
  \/ CallParseInterval

SpecParse == ParseInit /\ [][ParseNext]_vars

\* ---------------------------------------------------------------- claims
IntervalTasks == { i \in Tasks : loops[i].pc # "none" }
FixedDelayTasks == { i \in IntervalTasks : loops[i].fixed_delay }
FixedRateTasks == { i \in IntervalTasks : ~loops[i].fixed_delay }

\* this step starts the body of an execution of task i
Begins(i) ==
  \E k \in 1..Len(exec'[i]) :
    /\ exec'[i][k].st = "running"
    /\ k > Len(exec[i]) \/ exec[i][k].st = "queued"

\* execution k of task i is the one this step starts
BeginsExec(i, k) ==
  /\ k \in 1..Len(exec'[i])
  /\ exec'[i][k].st = "running"
  /\ k > Len(exec[i]) \/ exec[i][k].st = "queued"

\* this step dispatches an execution of task i
Dispatches(i) == Len(exec'[i]) = Len(exec[i]) + 1

ShutdownReturned == phase \in {"stopped", "stop_failed"}

\* C1: within one fixed_delay task, for every kind of work handle, an
\* execution of the body starts only after the previous one completed: no two
\* executions of the same fixed_delay task are running at the same time.
C1_FixedDelayNeverOverlaps ==
  \A i \in FixedDelayTasks : Cardinality(Running(i)) <= 1

\* C2: under fixed_delay every execution of a task starts at least `interval`
\* after the completion of that task's previous execution.
C2_FixedDelayStartsIntervalAfterCompletion ==
  [][\A i \in FixedDelayTasks : \A k \in 2..Len(exec'[i]) :
       BeginsExec(i, k) =>
         /\ exec[i][k-1].st \in {"done", "panicked"}
         /\ now >= lastEnd[i] + loops[i].period]_vars

\* C3: a fixed_rate loop dispatches an execution on every tick and never waits
\* for an earlier execution: it is never suspended on a body, and every tick
\* it consumed after the first has produced one dispatch.
C3_FixedRateDispatchesEveryTick ==
  \A i \in FixedRateTasks :
    /\ loops[i].pc # "await_body"
    /\ loops[i].pc = "tick" => Len(exec[i]) = loops[i].ticks - 1
    /\ loops[i].pc = "run" => Len(exec[i]) = loops[i].ticks - 2

\* C3 witness: two executions of one fixed_rate task are in flight together
C3_Witness ==
  \E i \in FixedRateTasks : Cardinality(Running(i)) >= 2

\* C4: under fixed_rate the k-th dispatch (k >= 1) of a task happens at
\* initial_delay + k * interval after the loop was spawned, whatever the
\* duration of the bodies.
C4_FixedRateDispatchInstants ==
  [][\A i \in FixedRateTasks :
       Dispatches(i) =>
         now = loops[i].spawnAt + loops[i].delay + Len(exec'[i]) * loops[i].period]_vars

\* C4 witness: a second dispatch of a delayed fixed_rate task while its first
\* body is still running
C4_Witness ==
  \E i \in FixedRateTasks :
    /\ loops[i].delay > 0
    /\ Len(exec[i]) >= 2
    /\ exec[i][1].st = "running"

\* C5: for every interval loop, fixed_rate and fixed_delay, no execution
\* starts earlier than initial_delay + interval after the loop was spawned.
C5_FirstExecutionAfterOneInterval ==
  [][\A i \in IntervalTasks :
       Begins(i) => now >= loops[i].spawnAt + loops[i].delay + loops[i].period]_vars

\* C6: an interval loop waits its initial delay exactly once, before anything
\* else: no execution starts earlier than initial_delay after the spawn, the
\* loop never goes back to the initial wait, and with initial delay 0 it does
\* not wait at all.
C6_InitialDelayOnce ==
  /\ [](\A i \in IntervalTasks :
          loops[i].pc = "sleep" /\ loops[i].delay = 0 => now = loops[i].spawnAt)
  /\ [][\A i \in IntervalTasks :
          /\ Begins(i) => now >= loops[i].spawnAt + loops[i].delay
          /\ loops[i].pc # "sleep" => loops'[i].pc # "sleep"]_vars

\* C6 witness: a task with a positive initial delay has started its second
\* execution
C6_Witness ==
  \E i \in IntervalTasks :
    /\ loops[i].delay > 0
    /\ Len(exec[i]) >= 2
    /\ exec[i][2].st # "queued"

\* `enabled` of descriptor i resolves to "false" in some letter case
ResolvesToFalse(i) ==
  LET e == resolve_config_value(registry[i].enabled, config)
  IN  e.ok /\ Len(e.val) = 5
           /\ e.val[1] \in {"f", "F"} /\ e.val[2] \in {"a", "A"}
           /\ e.val[3] \in {"l", "L"} /\ e.val[4] \in {"s", "S"}
           /\ e.val[5] \in {"e", "E"}

\* C7: a descriptor whose `enabled` resolves to "false" in any letter case
\* gets no timer loop and no cron job, and its body is never executed.
C7_DisabledNeverRuns ==
  \A i \in Tasks :
    ResolvesToFalse(i) =>
      /\ loops[i].pc = "none"
      /\ ~HasCronJob(i)
      /\ \A n \in 1..Len(handles) : handles[n] # i
      /\ exec[i] = <<>>

\* C7 witness: the scheduler runs, a descriptor disabled with an upper-case
\* spelling was walked past, and another task has executed since
C7_Witness ==
  /\ phase = "running"
  /\ \E i \in Tasks :
       /\ ResolvesToFalse(i)
       /\ registry[i].enabled \in {S_False, S_FALSE}
       /\ \E j \in Tasks : j # i /\ \E k \in 1..Len(exec[j]) : exec[j][k].st = "done"

\* C8: after shutdown() has returned, no new invocation of the body of any
\* task begins.
C8_NoInvocationAfterShutdown ==
  [][ShutdownReturned => \A i \in Tasks : ~Begins(i)]_vars

\* C9: when shutdown() returns, whether stopping the cron capability
\* succeeded or failed, every interval loop recorded in the handle has been
\* aborted.
C9_ShutdownAbortsEveryLoop ==
  ShutdownReturned => abortIdx > Len(handles)

\* C10: the body of an interval task that is executing when shutdown() is
\* called is cancelled and does not run to completion.
C10_InFlightBodyCancelled ==
  \A i \in IntervalTasks : \A k \in 1..Len(exec[i]) :
    exec[i][k].atCall => exec[i][k].st # "done"

\* the raw value has the form ${...}: "${" first, "}" last
HasPlaceholderForm(raw) ==
  /\ Len(raw) >= 3
  /\ raw[1] = "$" /\ raw[2] = "{"
  /\ raw[Len(raw)] = "}"

Returned == call.fn = "resolve_config_value" /\ ret # Pending

\* the text between "${" and "}"
InnerOf(raw) == SubSeq(raw, 3, Len(raw) - 1)

HasColon(t) == \E n \in 1..Len(t) : t[n] = ":"

KeyPresent(key) == \E e \in config : e.key = key

ValueOf(key) == (CHOOSE e \in config : e.key = key).value

\* the first colon of t splits it into a key and a default
FirstColon(t) == CHOOSE n \in 1..Len(t) : t[n] = ":" /\ \A m \in 1..(n-1) : t[m] # ":"

\* descriptor i has a timer loop or a cron job
Registered(i) == loops[i].pc # "none" \/ HasCronJob(i)

\* `enabled` of descriptor i resolves and is not "false"
Enabled(i) ==
  LET e == resolve_config_value(registry[i].enabled, config)
  IN  e.ok /\ ~IsDisabled(e.val)

\* the schedule kind of descriptor i is one of the three, every field of it
\* resolves, and its schedule value is a cron expression the cron capability
\* accepts or a positive interval
WellFormed(i) ==
  LET d == registry[i]
      v == resolve_config_value(d.schedule_value, config)
      u == resolve_config_value(d.time_unit, config)
  IN  /\ d.schedule_type \in {"cron", "fixed_rate", "fixed_delay"}
      /\ \A f \in {"time_unit", "initial_delay", "zone", "schedule_value"} :
           resolve_config_value(d[f], config).ok
      /\ IF d.schedule_type = "cron" THEN CronAccepts(v.val)
         ELSE /\ parse_interval(v.val, parse_time_unit(u.val)).ok
              /\ parse_interval(v.val, parse_time_unit(u.val)).val # u64_from(0)

\* C11: a resolution or scheduling failure of one descriptor, in any field
\* (enabled included), does not abort start(): start() never fails inside the
\* registration loops, and once it returned a handle every enabled, valid
\* descriptor is registered.
C11_DescriptorFailureDoesNotAbortStart ==
  /\ [](phase = "running" =>
          \A i \in Tasks : Enabled(i) /\ WellFormed(i) => Registered(i))
  /\ [][phase = "starting" /\ phase' = "start_failed" => idx > Len(registry)]_vars

\* the interval of descriptor i resolves to zero
ResolvesToZeroInterval(i) ==
  LET d == registry[i]
      v == resolve_config_value(d.schedule_value, config)
  IN  /\ d.schedule_type \in {"fixed_rate", "fixed_delay"}
      /\ v.ok
      /\ \/ parses_to_zero(v.val)
         \/ /\ parses_to_zero(leading_digits(v.val))
            /\ SubSeq(v.val, Len(leading_digits(v.val)) + 1, Len(v.val)) \in TimeSuffixes

\* C12: an interval descriptor whose interval resolves to zero fails
\* registration: no timer loop is spawned for it, no handle is recorded and
\* its body never runs.
C12_ZeroIntervalNotRegistered ==
  \A i \in Tasks :
    ResolvesToZeroInterval(i) =>
      /\ loops[i].pc = "none"
      /\ \A n \in 1..Len(handles) : handles[n] # i
      /\ exec[i] = <<>>

\* the text is a shorthand duration (digits and a lower-case unit suffix) or a
\* non-negative integer
IsDurationText(v) ==
  \/ Len(v) > 0 /\ AllDigits(v)
  \/ /\ leading_digits(v) # <<>>
     /\ SubSeq(v, Len(leading_digits(v)) + 1, Len(v)) \in TimeSuffixes

\* descriptor i is an enabled interval descriptor whose schedule value resolves
\* to text that is no duration
UnparsableInterval(i) ==
  LET d == registry[i]
      v == resolve_config_value(d.schedule_value, config)
  IN  /\ d.schedule_type \in {"fixed_rate", "fixed_delay"}
      /\ Enabled(i)
      /\ \A f \in {"time_unit", "initial_delay", "zone"} :
           resolve_config_value(d[f], config).ok
      /\ v.ok /\ ~IsDurationText(v.val)

\* C13: an interval descriptor whose resolved schedule value is neither a
\* shorthand duration nor a non-negative integer gets no loop and no handle,
\* and start() goes on to the next descriptor.
C13_UnparsableIntervalSkipped ==
  /\ [](\A i \in Tasks :
          UnparsableInterval(i) =>
            /\ loops[i].pc = "none"
            /\ \A n \in 1..Len(handles) : handles[n] # i
            /\ exec[i] = <<>>)
  /\ [][phase = "starting" /\ idx \in Tasks /\ UnparsableInterval(idx) =>
          phase' = "starting" /\ idx' = idx + 1]_vars

\* C13 witness: start() returned a handle although a descriptor with a
\* negative or upper-case-suffixed value had been walked, and the descriptor
\* after it has executed
C13_Witness ==
  /\ phase = "running"
  /\ \E i \in Tasks :
       /\ UnparsableInterval(i)
       /\ registry[i].schedule_value \in {S_neg1, S_z_default_5S}
       /\ \E j \in Tasks : j > i /\ \E k \in 1..Len(exec[j]) : exec[j][k].st = "done"

\* the value opens a placeholder that is not closed, or carries text after
\* the closing brace
MalformedPlaceholder(v) ==
  /\ Len(v) >= 2 /\ v[1] = "$" /\ v[2] = "{"
  /\ v[Len(v)] # "}"

\* C20: a declared value such as "${a.b" or "${a.b}s", in any field that
\* accepts a placeholder, is rejected at validation: a descriptor carrying one
\* is never given a timer loop or a cron job.
C20_MalformedPlaceholderNeverScheduled ==
  \A i \in Tasks :
    (\E f \in {"enabled", "schedule_value", "initial_delay", "zone"} :
        MalformedPlaceholder(registry[i][f]))
      => ~Registered(i)

\* this step is a panic of a body of task i
Panics(i) ==
  \E k \in 1..Len(exec[i]) : exec[i][k].st # "panicked" /\ exec'[i][k].st = "panicked"

\* a body of task i has panicked / never returns
HasPanicked(i) == \E k \in 1..Len(exec[i]) : exec[i][k].st = "panicked"
HasHung(i) == \E k \in 1..Len(exec[i]) : exec[i][k].st = "hung"

\* C14: a panic inside the body of one task never terminates the timer loop
\* of another task: the step of the panic leaves every other loop as it was,
\* and a loop is only ever dead by a panic of its own.
C14_PanicDoesNotKillOtherLoops ==
  /\ [](\A j \in Tasks :
          loops[j].pc = "panicked" => loops[j].period = 0 \/ HasPanicked(j))
  /\ [][\A i \in Tasks : Panics(i) =>
          \A j \in Tasks \ {i} : loops'[j] = loops[j]]_vars

\* C14 witness: after a body of one task panicked, the loop of another task
\* has dispatched an execution at a later instant
C14_Witness ==
  \E i \in Tasks :
    /\ HasPanicked(i)
    /\ \E j \in IntervalTasks \ {i} :
         /\ Queued(j) # {}
         /\ now > lastEnd[i]

\* C15: after the body of a task panics, the task's own timer loop survives,
\* for every kind of work handle: no loop with a valid interval is ever dead.
C15_OwnLoopSurvivesPanic ==
  \A i \in IntervalTasks : loops[i].pc = "panicked" => loops[i].period = 0

\* this step marks a body of task i as never returning
Hangs(i) ==
  \E k \in 1..Len(exec[i]) : exec[i][k].st # "hung" /\ exec'[i][k].st = "hung"

\* C16: once a body of a fixed_delay task never returns, that task executes no
\* further (no later dispatch, no later start of its body), and the hang
\* leaves the loop of every other task as it was.
C16_HungFixedDelayStallsOnlyItself ==
  /\ [][\A i \in FixedDelayTasks : HasHung(i) => ~Dispatches(i) /\ ~Begins(i)]_vars
  /\ [][\A i \in Tasks : Hangs(i) =>
          \A j \in Tasks \ {i} : loops'[j] = loops[j]]_vars

\* C17: resolve returns raw unchanged, whatever the config store, whenever raw
\* is not of the form ${...}.
C17_LiteralPassThrough ==
  Returned /\ ~HasPlaceholderForm(call.value) => ret = Some(call.value)

\* C17 witness: a raw value that opens "${" but has no closing brace came back
\* unchanged from a store that has a key
C17_Witness ==
  /\ Returned
  /\ config # {}
  /\ call.value = <<"$", "{", "a">>
  /\ ret = Some(call.value)

\* C18: for ${key} without a colon, resolve returns the store's value when the
\* key is present, and an error (no fallback, not the raw text) when absent.
C18_RequiredKey ==
  Returned /\ HasPlaceholderForm(call.value) /\ ~HasColon(InnerOf(call.value)) =>
    IF KeyPresent(InnerOf(call.value))
      THEN ret = Some(ValueOf(InnerOf(call.value)))
      ELSE ~ret.ok

\* C18 witness: ${a} resolved against a store without the key "a" is an error
C18_Witness ==
  /\ Returned
  /\ call.value = <<"$", "{", "a", "}">>
  /\ config = {}
  /\ ~ret.ok

\* C19: for ${key:default}, resolve returns Ok with the store's value when the
\* key is present and Ok with the text between the first colon and the closing
\* brace when it is absent; it never returns an error.
C19_DefaultedKey ==
  Returned /\ HasPlaceholderForm(call.value) /\ HasColon(InnerOf(call.value)) =>
    LET inner == InnerOf(call.value)
        c == FirstColon(inner)
        key == SubSeq(inner, 1, c - 1)
    IN  IF KeyPresent(key)
          THEN ret = Some(ValueOf(key))
          ELSE ret = Some(SubSeq(inner, c + 1, Len(inner)))

\* C19 witness: ${a::} against a store without "a" yields the default ":"
C19_Witness ==
  /\ Returned
  /\ call.value = <<"$", "{", "a", ":", ":", "}">>
  /\ config = {}
  /\ ret = Some(<<":">>)


\* ---------------------------------------------------- claims on the parsers
\* the text without the spaces around it
Core(s) ==
  IF \A i \in 1..Len(s) : s[i] = " " THEN <<>>
  ELSE LET a == CHOOSE i \in 1..Len(s) : s[i] # " " /\ \A j \in 1..(i-1) : s[j] = " "
           b == CHOOSE i \in 1..Len(s) : s[i] # " " /\ \A j \in (i+1)..Len(s) : s[j] = " "
       IN  SubSeq(s, a, b)

\* the unit each suffix of the shorthand grammar stands for
SuffixUnit ==
  [suffix \in TimeSuffixes |->
     CASE suffix = <<"m","s">> -> "Milliseconds"
       [] suffix = <<"s">> -> "Seconds"
       [] suffix = <<"m">> -> "Minutes"
       [] suffix = <<"h">> -> "Hours"
       [] suffix = <<"d">> -> "Days"]

\* s matches ^[0-9]+(ms|s|m|h|d)$
MatchesShorthand(s) ==
  \E k \in 1..(Len(s) - 1) :
    AllDigits(SubSeq(s, 1, k)) /\ SubSeq(s, k + 1, Len(s)) \in TimeSuffixes

\* the digit run and the suffix of a text that matches the grammar
RunOf(s) ==
  SubSeq(s, 1, CHOOSE k \in 1..(Len(s) - 1) :
                 AllDigits(SubSeq(s, 1, k)) /\ SubSeq(s, k + 1, Len(s)) \in TimeSuffixes)
SuffixOf(s) == SubSeq(s, Len(RunOf(s)) + 1, Len(s))

\* a digit run without its leading zeros
RECURSIVE StripZeros(_)
StripZeros(d) == IF Len(d) > 1 /\ d[1] = "0" THEN StripZeros(Tail(d)) ELSE d

\* the digit run denotes a number of at most 2^64 - 1
FitsU64(d) ==
  LET t == StripZeros(d)
  IN  \/ Len(t) < Len(S_u64_max)
      \/ /\ Len(t) = Len(S_u64_max)
         /\ \/ t = S_u64_max
            \/ \E i \in 1..Len(t) :
                 /\ SubSeq(t, 1, i - 1) = SubSeq(S_u64_max, 1, i - 1)
                 /\ DigitVal(t[i]) < DigitVal(S_u64_max[i])

\* the decimal digits of a u64
RECURSIVE Decimal(_)
Decimal(n) ==
  LET d == div_rem(n, 10)
  IN  IF \A i \in 1..Len(d.q) : d.q[i] = 0 THEN <<DigitChars[d.r + 1]>>
      ELSE Append(Decimal(d.q), DigitChars[d.r + 1])

ParseDurationReturned == call.fn = "parse_duration" /\ ret # Pending

\* parse_duration returned Some((n, unit)) for the shorthand text t
ReturnedDurationOf(t) ==
  /\ ret.ok
  /\ Decimal(ret.val.value) = StripZeros(RunOf(t))
  /\ ret.val.unit = SuffixUnit[SuffixOf(t)]

\* C21, as stated: parse_duration(s) returns Some((n, unit)) exactly when s
\* itself matches ^[0-9]+(ms|s|m|h|d)$, n being the value of the digit run and
\* unit the unit of the suffix, and None for every other string, a string
\* with surrounding whitespace included.
C21_ParseDurationGrammar ==
  ParseDurationReturned =>
    IF MatchesShorthand(call.s) THEN ReturnedDurationOf(call.s) ELSE ret = None

\* C21, amended: parse_duration(s) returns Some((n, unit)) exactly when s
\* without its leading and trailing whitespace matches the grammar and the
\* digit run denotes a number that fits in 64 bits; it returns None for every
\* other string.
C21_ParseDurationTrimmedGrammar ==
  ParseDurationReturned =>
    IF MatchesShorthand(Core(call.s)) /\ FitsU64(RunOf(Core(call.s)))
      THEN ReturnedDurationOf(Core(call.s))
      ELSE ret = None

\* C21 witness: a shorthand text with a space before it and a space after it
\* was parsed
C21_Witness ==
  /\ ParseDurationReturned
  /\ ret.ok
  /\ Len(call.s) > 2 /\ call.s[1] = " " /\ call.s[Len(call.s)] = " "

\* a <= b, as numbers
U64Leq(a, b) ==
  \/ a = b
  \/ \E i \in 1..Len(a) :
       a[i] < b[i] /\ \A j \in (i+1)..Len(a) : a[j] = b[j]

\* the factor of each unit, as the divisors it is the product of
FactorOf ==
  [unit \in Units |->
     CASE unit = "Milliseconds" -> <<1>>
       [] unit = "Seconds" -> <<1000>>
       [] unit = "Minutes" -> <<60000>>
       [] unit = "Hours" -> <<3600000>>
       [] unit = "Days" -> <<1000, 86400>>]

\* p divided by each of the divisors in turn: the quotient, and whether every
\* division was exact
RECURSIVE DividedBy(_, _)
DividedBy(p, ks) ==
  IF Len(ks) = 0 THEN [q |-> p, exact |-> TRUE]
  ELSE LET d == div_rem(p, ks[1])
           rest == DividedBy(d.q, Tail(ks))
       IN  [q |-> rest.q, exact |-> d.r = 0 /\ rest.exact]

\* p = value * factor of the unit
IsProduct(p, unit, value) ==
  DividedBy(p, FactorOf[unit]).exact /\ DividedBy(p, FactorOf[unit]).q = value

\* value * factor of the unit is at most 2^64 - 1
ProductFits(unit, value) == U64Leq(value, DividedBy(u64_MAX, FactorOf[unit]).q)

ToMillisReturned == call.fn = "to_millis" /\ ret # Pending

\* C22: to_millis(unit, value) equals value times the factor of the unit
\* (1, 1000, 60000, 3600000, 86400000) for each of the five units and every
\* value whose product fits in 64 bits.
C22_ToMillisExact ==
  ToMillisReturned /\ ProductFits(call.unit, call.value) =>
    ret.ok /\ IsProduct(ret.val, call.unit, call.value)

\* C22 witness: to_millis returned for days and minutes, on a value that is
\* not zero
C22_Witness ==
  /\ ToMillisReturned
  /\ call.unit \in {"Days", "Minutes"}
  /\ call.value # u64_from(0)
  /\ ProductFits(call.unit, call.value)
  /\ ret.ok

\* the unit each full word names
WordUnit ==
  [w \in UnitWords |->
     CASE w = S_milliseconds -> "Milliseconds"
       [] w = S_seconds -> "Seconds"
       [] w = S_minutes -> "Minutes"
       [] w = S_hours -> "Hours"
       [] w = S_days -> "Days"]

\* s is the word w, letter by letter, whatever the case of each letter
SameWord(s, w) ==
  /\ Len(s) = Len(w)
  /\ \A i \in 1..Len(w) : s[i] = w[i] \/ s[i] = UpperChar(w[i])

FromStrReturned == call.fn = "from_str" /\ ret # Pending

\* C23: parsing a unit name succeeds exactly for the five full words
\* milliseconds, seconds, minutes, hours, days in any mix of upper and lower
\* case, and yields the unit of the word; abbreviations and every other text
\* fail.
C23_UnitNameFullWordsOnly ==
  FromStrReturned =>
    IF \E w \in UnitWords : SameWord(call.s, w)
      THEN ret = Some(WordUnit[CHOOSE w \in UnitWords : SameWord(call.s, w)])
      ELSE ret = None

\* C23 witness: a name spelled with upper-case and lower-case letters was
\* parsed to its unit
C23_Witness ==
  /\ FromStrReturned
  /\ ret.ok
  /\ \E i, j \in 1..Len(call.s) :
       call.s[i] # UpperChar(call.s[i]) /\ call.s[j] # LowerChar(call.s[j])

\* the text is a valid shorthand duration: parse_duration accepts it
ValidShorthand(s) == MatchesShorthand(Core(s)) /\ FitsU64(RunOf(Core(s)))

\* the text is a bare non-negative integer that fits in 64 bits: digits only,
\* after an optional plus sign
BareInteger(s) ==
  LET body == IF Len(s) > 0 /\ s[1] = "+" THEN Tail(s) ELSE s
  IN  Len(body) > 0 /\ AllDigits(body) /\ FitsU64(body)

DigitsOfBare(s) == IF s[1] = "+" THEN Tail(s) ELSE s

\* p is the number the digits denote, times the factor of the unit
IsMillisOf(p, unit, digits) ==
  /\ DividedBy(p, FactorOf[unit]).exact
  /\ Decimal(DividedBy(p, FactorOf[unit]).q) = StripZeros(digits)

\* p is what a duration text resolves to under the time_unit: the suffix
\* decides for a shorthand, the time_unit for a bare integer
ResolvesTo(p, text, time_unit) ==
  IF ValidShorthand(text)
    THEN IsMillisOf(p, SuffixUnit[SuffixOf(Core(text))], RunOf(Core(text)))
    ELSE BareInteger(text) /\ IsMillisOf(p, time_unit, DigitsOfBare(text))

InitialDelayReturned == call.fn = "parse_initial_delay" /\ ret # Pending

\* C25: the initial delay in milliseconds is to_millis(suffix unit, n) for a
\* valid shorthand duration, whatever the time_unit; otherwise
\* to_millis(time_unit, n) for a bare non-negative integer n; otherwise 0.
\* parse_initial_delay returns a value for every text: it never fails.
C25_InitialDelayResolution ==
  InitialDelayReturned =>
    /\ ret.ok
    /\ IF ValidShorthand(call.s) \/ BareInteger(call.s)
         THEN ResolvesTo(ret.val, call.s, call.unit)
         ELSE ret.val = u64_from(0)

\* C25 witness: a shorthand in seconds was resolved under the time_unit Days,
\* to a delay that is not zero
C25_Witness ==
  /\ InitialDelayReturned
  /\ ValidShorthand(call.s)
  /\ SuffixOf(Core(call.s)) = <<"s">>
  /\ call.unit = "Days"
  /\ ret.val # u64_from(0)

IntervalReturned == call.fn = "parse_interval" /\ ret # Pending

\* C26: the interval is resolved shorthand-first: for a valid shorthand
\* duration interval_millis = to_millis(suffix unit, n), whatever the
\* time_unit (the suffix wins); for a bare integer n, interval_millis =
\* to_millis(time_unit, n).
C26_IntervalShorthandFirst ==
  IntervalReturned /\ (ValidShorthand(call.s) \/ BareInteger(call.s)) =>
    ret.ok /\ ResolvesTo(ret.val, call.s, call.unit)

\* C26 witness: a shorthand in minutes was resolved under the time_unit
\* Seconds, and a bare integer under the time_unit Hours
C26_Witness ==
  /\ IntervalReturned
  /\ ret.ok /\ ret.val # u64_from(0)
  /\ \/ ValidShorthand(call.s) /\ SuffixOf(Core(call.s)) = <<"m">> /\ call.unit = "Seconds"
     \/ BareInteger(call.s) /\ call.unit = "Hours"

\* ------------------------------------------------ claims on the time unit
\* the time_unit of descriptor i cannot be turned into one of the five units:
\* it does not resolve, or it resolves to a text that is no unit name
TimeUnitUnusable(i) ==
  LET u == resolve_config_value(registry[i].time_unit, config)
  IN  ~u.ok \/ ~\E w \in UnitWords : SameWord(u.val, w)

\* the time_unit of descriptor i resolves to a text that is no unit name
TimeUnitNameInvalid(i) ==
  LET u == resolve_config_value(registry[i].time_unit, config)
  IN  u.ok /\ ~\E w \in UnitWords : SameWord(u.val, w)

\* descriptor i is valid, its time_unit left aside: the other fields resolve
\* and the schedule value is an accepted cron expression or, read in
\* milliseconds, a positive interval
ValidButForTimeUnit(i) ==
  LET d == registry[i]
      v == resolve_config_value(d.schedule_value, config)
  IN  /\ \A f \in {"initial_delay", "zone", "schedule_value"} :
           resolve_config_value(d[f], config).ok
      /\ IF d.schedule_type = "cron" THEN CronAccepts(v.val)
         ELSE /\ parse_interval(v.val, "Milliseconds").ok
              /\ parse_interval(v.val, "Milliseconds").val # u64_from(0)

\* descriptor i is scheduled, an interval descriptor with its schedule value
\* read in milliseconds
ScheduledInMilliseconds(i) ==
  LET d == registry[i]
      v == resolve_config_value(d.schedule_value, config)
  IN  /\ Registered(i)
      /\ d.schedule_type # "cron" =>
           loops[i].period = Duration_from_millis(parse_interval(v.val, "Milliseconds").val)

\* C24: a problem with the time_unit of a descriptor is never fatal: when the
\* time_unit of an enabled, otherwise valid descriptor cannot be turned into
\* one of the five units, the descriptor is registered with Milliseconds and
\* the task is scheduled.
C24_TimeUnitNeverFatal ==
  phase = "running" =>
    \A i \in Tasks :
      Enabled(i) /\ ValidButForTimeUnit(i) /\ TimeUnitUnusable(i) =>
        ScheduledInMilliseconds(i)

\* ------------------------------------------------ claims on the lifecycle
\* the steps of Built -> Starting -> Running -> ShuttingDown -> Stopped, the
\* builder being the first part of Built, and the exits by failure of
\* start() and of shutdown()
ForwardSteps ==
  { <<"building", "built">>, <<"built", "starting">>, <<"starting", "running">>,
    <<"running", "shutting">>, <<"shutting", "stopped">>,
    <<"built", "start_failed">>, <<"starting", "start_failed">>,
    <<"starting", "start_panicked">>,
    <<"running", "stop_failed">> }

\* C27: the lifecycle of a scheduler only moves forward along Built ->
\* Starting -> Running -> ShuttingDown -> Stopped: descriptors are added only
\* on the builder, before build(); start() begins only from Built and
\* shutdown() only from Running, hence at most once each; no state is
\* entered again.
C27_LifecycleForwardOnly ==
  [][/\ phase' # phase => <<phase, phase'>> \in ForwardSteps
     /\ registry' # registry => phase = "building" /\ phase' = "building"]_vars

\* C27 witness: a scheduler that was given two descriptors on the builder has
\* run a body and is stopped
C27_Witness ==
  /\ phase = "stopped"
  /\ Len(registry) = 2
  /\ \E i \in Tasks : exec[i] # <<>>

\* ------------------------------------------------- claims on the liveness
\* the executions of task i whose body has begun
Begun(i) == { k \in 1..Len(exec[i]) : exec[i][k].st # "queued" }

\* the instant at which the loop of task i next invokes its work, at the latest
NextDue(i) ==
  CASE loops[i].pc = "sleep" -> loops[i].at + loops[i].period
    [] loops[i].pc \in {"tick", "await_body"} -> loops[i].at
    [] OTHER -> now

\* task i is an interval task with a non-zero interval in a started scheduler,
\* shutdown() has not been called, none of its bodies panicked or hung, n of
\* its executions have begun and the next one is due before the clock ends
AwaitsExecution(i, n) ==
  /\ i \in IntervalTasks
  /\ phase = "running"
  /\ loops[i].period > 0
  /\ ~HasPanicked(i) /\ ~HasHung(i)
  /\ Cardinality(Begun(i)) = n
  /\ NextDue(i) <= MaxTime

\* more than n executions of task i have begun, or the premises are gone:
\* shutdown() was called or a body of the task panicked or hung
ExecutedAgain(i, n) ==
  i \in Tasks =>
    \/ Cardinality(Begun(i)) > n
    \/ phase # "running"
    \/ HasPanicked(i) \/ HasHung(i)

\* C28: under fair scheduling, for every enabled interval descriptor with a
\* valid non-zero interval whose bodies terminate, while the scheduler is
\* started and shutdown() has not been called, the body is executed again:
\* whatever the number n of executions so far, when the next tick falls
\* within the run of the clock an execution n + 1 begins.
C28_IntervalTasksKeepExecuting ==
  \A i \in LiveTaskIds : \A n \in 0..(MaxTime - 1) :
    AwaitsExecution(i, n) ~> ExecutedAgain(i, n)

\* C28 witness: three executions of an interval task have begun in a started
\* scheduler
C28_Witness ==
  /\ phase = "running"
  /\ \E i \in IntervalTasks : Cardinality(Begun(i)) >= 3

\* ------------------------------------------- one registration per descriptor
\* the timer loops the handle holds for descriptor i
LoopsOf(i) == { n \in 1..Len(handles) : handles[n] = i }

\* the jobs the cron capability holds for descriptor i
JobsOf(i) == { n \in 1..Len(cronJobs) : cronJobs[n] = i }

\* start() returned Ok(SchedulerHandle)
StartSucceeded == phase \in {"running", "shutting", "stopped", "stop_failed"}

\* C29: when start() succeeds, the handle holds exactly one timer loop for
\* each enabled, validly configured fixed_rate / fixed_delay descriptor and
\* the cron capability exactly one job for each enabled, validly configured
\* cron descriptor; no descriptor is registered twice, a cron descriptor has
\* no timer loop and an interval descriptor has no cron job.
C29_OneRegistrationPerDescriptor ==
  StartSucceeded =>
    \A i \in Tasks :
      /\ Cardinality(LoopsOf(i)) + Cardinality(JobsOf(i)) <= 1
      /\ registry[i].schedule_type = "cron" => LoopsOf(i) = {}
      /\ registry[i].schedule_type \in {"fixed_rate", "fixed_delay"} => JobsOf(i) = {}
      /\ Enabled(i) /\ WellFormed(i) =>
            IF registry[i].schedule_type = "cron"
              THEN Cardinality(JobsOf(i)) = 1
              ELSE Cardinality(LoopsOf(i)) = 1 /\ loops[i].pc # "none"

\* C29 witness: start() returned a handle for a registry of an interval
\* descriptor and a cron descriptor, both registered
C29_Witness ==
  /\ phase = "running"
  /\ \E i, j \in Tasks :
       /\ registry[i].schedule_type \in {"fixed_rate", "fixed_delay"}
       /\ registry[j].schedule_type = "cron"
       /\ Enabled(i) /\ WellFormed(i) /\ LoopsOf(i) # {}
       /\ Enabled(j) /\ WellFormed(j) /\ JobsOf(j) # {}

\* ------------------------------------------------ cron and the time unit
\* descriptor i with the time_unit the descriptor builders default to
WithDefaultTimeUnit(i) == [registry[i] EXCEPT !.time_unit = S_seconds]

\* start() has walked past descriptor i and did not skip it as disabled
Walked(i) == idx > i /\ Enabled(i)

\* C30: for a cron descriptor time_unit has no effect: whatever its
\* time_unit, the cron capability is handed the one job, with the same
\* resolved expression and for the same descriptor's callback, that it is
\* handed when time_unit is left at its default.
C30_CronIgnoresTimeUnit ==
  \A i \in Tasks :
    registry[i].schedule_type = "cron" /\ Walked(i) =>
      LET job == Registration(WithDefaultTimeUnit(i), config)
      IN  IF job.kind = "cron"
            THEN /\ Cardinality(JobsOf(i)) = 1
                 /\ Registration(registry[i], config) = job
            ELSE JobsOf(i) = {}

\* --------------------------------------------- intervals and the zone
\* descriptor i with the zone the descriptors default to
WithDefaultZone(i) == [registry[i] EXCEPT !.zone = S_local]

\* C31: for a fixed_rate / fixed_delay descriptor the zone is accepted and
\* ignored: whatever its zone (a placeholder whose key is absent included),
\* the descriptor is registered with the loop, the interval and the initial
\* delay it has with the default zone.
C31_IntervalIgnoresZone ==
  \A i \in Tasks :
    registry[i].schedule_type \in {"fixed_rate", "fixed_delay"} /\ Walked(i) =>
      LET r == Registration(WithDefaultZone(i), config)
      IN  IF r.kind = "loop"
            THEN /\ Cardinality(LoopsOf(i)) = 1
                 /\ loops[i].period = r.interval_millis
                 /\ loops[i].delay = r.initial_delay_millis
                 /\ loops[i].fixed_delay = r.is_fixed_delay
            ELSE LoopsOf(i) = {}

\* ------------------------------------------------ one method, one descriptor
\* method i is disabled, or its registration returns an error
SkippedOrFailed(i) ==
  LET e == resolve_config_value(registry[i].enabled, config)
  IN  e.ok /\ (IsDisabled(e.val) \/ Registration(registry[i], config).kind = "error")

\* descriptor j has the loop or the cron job its own fields ask for
OnItsOwnSchedule(j) ==
  LET r == Registration(registry[j], config)
  IN  IF r.kind = "cron"
        THEN Cardinality(JobsOf(j)) = 1 /\ LoopsOf(j) = {}
        ELSE /\ Cardinality(LoopsOf(j)) = 1 /\ JobsOf(j) = {}
             /\ loops[j].period = r.interval_millis
             /\ loops[j].delay = r.initial_delay_millis
             /\ loops[j].fixed_delay = r.is_fixed_delay

\* C32: a method that is disabled or fails registration does not prevent
\* another method, of the same instance or of another one, from being
\* registered on its own schedule: start() does not fail at such a method, and
\* every enabled valid method start() has walked past has its loop or its job.
C32_MethodsAreIndependent ==
  /\ []((\E i \in Tasks : registry[i].source = "method" /\ SkippedOrFailed(i)) =>
          \A j \in Tasks :
            /\ registry[j].source = "method"
            /\ Enabled(j) /\ WellFormed(j)
            /\ idx > j
            => OnItsOwnSchedule(j))
  /\ [][/\ phase = "starting" /\ phase' = "start_failed"
        /\ idx <= Len(registry)
        => ~SkippedOrFailed(idx)]_vars

\* C32 witness: start() walked past a skipped or failed method, and a later
\* method of the same instance is registered and has executed
C32_Witness ==
  /\ phase = "running"
  /\ \E i, j \in Tasks :
       /\ SkippedOrFailed(i) /\ i < j
       /\ registry[i].source = "method" /\ registry[j].source = "method"
       /\ registry[i].instance = registry[j].instance
       /\ OnItsOwnSchedule(j)
       /\ \E k \in 1..Len(exec[j]) : exec[j][k].st = "done"

\* ------------------------------------------------ an unknown schedule kind
\* the schedule_type of descriptor i is none of the three the match knows
HasUnknownKind(i) ==
  registry[i].schedule_type \notin {"cron", "fixed_rate", "fixed_delay"}

\* C33: a descriptor whose schedule kind is none of cron, fixed_rate,
\* fixed_delay is a per-descriptor error: it gets no loop and no cron job, its
\* body never runs, and start() goes on to the descriptors after it.
C33_UnknownKindIsPerDescriptorError ==
  /\ [](\A i \in Tasks :
          HasUnknownKind(i) =>
            /\ LoopsOf(i) = {} /\ JobsOf(i) = {}
            /\ loops[i].pc = "none"
            /\ exec[i] = <<>>)
  /\ [][/\ phase = "starting" /\ idx <= Len(registry)
        /\ HasUnknownKind(idx) /\ Enabled(idx)
        => phase' = "starting" /\ idx' = idx + 1]_vars
  /\ [](phase = "running" /\ (\E i \in Tasks : HasUnknownKind(i)) =>
          \A j \in Tasks : Enabled(j) /\ WellFormed(j) /\ ~HasUnknownKind(j)
                             => OnItsOwnSchedule(j))

\* C33 witness: start() returned a handle although a descriptor had an
\* unknown kind, and the descriptor after it has executed
C33_Witness ==
  /\ phase = "running"
  /\ \E i, j \in Tasks :
       /\ HasUnknownKind(i) /\ Enabled(i) /\ i < j
       /\ OnItsOwnSchedule(j)
       /\ \E k \in 1..Len(exec[j]) : exec[j][k].st = "done"

\* ------------------------------------------- fixed_rate, executions in flight
\* the executions of task i that were dispatched and have not ended
InFlight(i) == { k \in 1..Len(exec[i]) : exec[i][k].st \in {"queued", "running", "hung"} }

\* C34: the fixed_rate path puts no bound on the executions of one task that
\* are in flight together: a delivered tick is dispatched whatever the number
\* in flight, the dispatch adds one, and the loop goes back to its interval
\* without awaiting the body.
C34_FixedRateInFlightUnbounded ==
  /\ [](\A i \in FixedRateTasks : loops[i].pc = "run" => ENABLED LoopInvoke(i))
  /\ [][\A i \in FixedRateTasks :
          LoopInvoke(i) =>
            /\ Cardinality(InFlight(i))' = Cardinality(InFlight(i)) + 1
            /\ loops'[i].pc \in {"tick", "aborted"}]_vars

\* C34 witness: three executions of one fixed_rate task run together, none
\* of its executions having ended
C34_Witness ==
  \E i \in FixedRateTasks :
    /\ Cardinality(Running(i)) >= 3
    /\ InFlight(i) = 1..Len(exec[i])

\* --------------------------------------------- disabled before anything else
\* a field of descriptor i other than `enabled` does not resolve, or its
\* schedule does not parse
OtherFieldInvalid(i) ==
  \/ \E f \in {"schedule_value", "initial_delay", "time_unit", "zone"} :
       ~resolve_config_value(registry[i][f], config).ok
  \/ Registration(registry[i], config).kind = "error"

\* C35: a descriptor whose `enabled` resolves to "false" is skipped before
\* any other field is looked at: invalid values or missing keys in its
\* schedule value, initial delay, time_unit or zone cause no error and no
\* registration, and start() goes on.
C35_DisabledSkippedBeforeOtherFields ==
  /\ [](\A i \in Tasks :
          ResolvesToFalse(i) /\ idx > i =>
            /\ printed[i] = "disabled"
            /\ LoopsOf(i) = {} /\ JobsOf(i) = {}
            /\ loops[i].pc = "none"
            /\ exec[i] = <<>>)
  /\ [][/\ phase = "starting" /\ idx <= Len(registry)
        /\ ResolvesToFalse(idx)
        => phase' = "starting" /\ idx' = idx + 1]_vars

\* C35 witness: start() returned a handle after walking past a disabled
\* descriptor with an invalid field, and the descriptor after it has executed
C35_Witness ==
  /\ phase = "running"
  /\ \E i, j \in Tasks :
       /\ ResolvesToFalse(i) /\ OtherFieldInvalid(i) /\ i < j
       /\ printed[i] = "disabled"
       /\ \E k \in 1..Len(exec[j]) : exec[j][k].st = "done"

\* ------------------------------------------------------ start() that fails
\* start() returned Err
StartFailed == phase = "start_failed"

\* the timer loop of descriptor i is a live task
LoopAlive(i) == loops[i].pc \in {"sleep", "tick", "run", "await_body"}

\* C36: start() fails atomically: once start() has returned an error, no
\* timer loop spawned earlier in that call is left running and no body of any
\* task begins.
C36_StartFailsAtomically ==
  /\ [](StartFailed => \A i \in Tasks : ~LoopAlive(i))
  /\ [][StartFailed => \A i \in Tasks : ~Begins(i)]_vars

\* ------------------------------------------------- enabled unless "false"
\* `enabled` of descriptor i resolves to a text that is not "false" in any
\* letter case
ResolvesToOtherThanFalse(i) ==
  resolve_config_value(registry[i].enabled, config).ok /\ ~ResolvesToFalse(i)

\* `enabled` of descriptor i resolves to a text that is not "true" either
NotTrueEither(i) ==
  resolve_config_value(registry[i].enabled, config).val # S_true

\* C37: a descriptor is enabled unless its resolved `enabled` equals "false"
\* case-insensitively: with every other resolved value start() registers it
\* as it registers a descriptor enabled with "true".
C37_EnabledUnlessFalse ==
  \A i \in Tasks :
    idx > i /\ ResolvesToOtherThanFalse(i) =>
      /\ printed[i] # "disabled"
      /\ WellFormed(i) => printed[i] = "registered" /\ OnItsOwnSchedule(i)

\* C37 witness: a descriptor whose `enabled` resolves to a text other than
\* "true" and "false" is registered and has executed
C37_Witness ==
  /\ phase = "running"
  /\ \E i \in Tasks :
       /\ ResolvesToOtherThanFalse(i) /\ NotTrueEither(i)
       /\ printed[i] = "registered" /\ OnItsOwnSchedule(i)
       /\ \E k \in 1..Len(exec[i]) : exec[i][k].st = "done"

\* ------------------------------------------- cron and the initial delay
\* descriptor i with the initial delay the descriptors default to
WithNoInitialDelay(i) == [registry[i] EXCEPT !.initial_delay = S_0]

\* the initial delay of descriptor i, in milliseconds on the clock of the model
InitialDelayOf(i) ==
  Duration_from_millis(
    parse_initial_delay(resolve_config_value(registry[i].initial_delay, config).val,
                        parse_time_unit(
                          resolve_config_value(registry[i].time_unit, config).val)))

\* C38: the initial delay of a cron descriptor is resolved and never applied:
\* the job is handed to the cron capability during start(), the same job as
\* with no initial delay and without a timer loop, and the capability may fire
\* it as soon as it is up, whatever the initial delay.
C38_CronInitialDelayNotApplied ==
  \A i \in Tasks :
    /\ registry[i].schedule_type = "cron" /\ Walked(i)
    /\ resolve_config_value(registry[i].initial_delay, config).ok
    => LET job == Registration(WithNoInitialDelay(i), config)
       IN  IF job.kind = "cron"
             THEN /\ Cardinality(JobsOf(i)) = 1
                  /\ Registration(registry[i], config) = job
                  /\ loops[i].pc = "none"
                  /\ cronUp /\ cronFires[i] < MaxCronFires => ENABLED CronFire(i)
             ELSE JobsOf(i) = {}

\* C38 witness: the job of a cron descriptor with an initial delay has been
\* fired and has executed before that delay has passed
C38_Witness ==
  \E i \in Tasks :
    /\ registry[i].schedule_type = "cron"
    /\ HasCronJob(i)
    /\ InitialDelayOf(i) > now
    /\ \E k \in 1..Len(exec[i]) : exec[i][k].st = "done"

\* ------------------------------------------- claims on the 64-bit products
\* the interval or the initial delay of descriptor i, multiplied by the
\* factor of its unit, exceeds the 64-bit range
MillisOverflow(i) == RegistrationOverflows(registry[i], config)

\* C39: no registered interval loop ever runs with a wrapped-around period:
\* an enabled descriptor whose interval (or initial delay) times the factor
\* of its unit exceeds the 64-bit range is not scheduled with the product
\* reduced modulo 2^64; it fails registration (no loop, no handle, an error
\* logged), start() goes on and the other descriptors are registered.
C39_NoWrappedPeriod ==
  \A i \in Tasks :
    Enabled(i) /\ MillisOverflow(i) =>
      /\ phase # "start_panicked"
      /\ idx > i => loops[i].pc = "none" /\ LoopsOf(i) = {} /\ printed[i] = "error"
      /\ phase = "running" =>
           \A j \in Tasks \ {i} :
             Enabled(j) /\ WellFormed(j) /\ ~MillisOverflow(j) => Registered(j)

====
